---------------------------- MODULE Spec2Model ----------------------------
(***************************************************************************)
(* Model of the scraping pipeline of the repository:                       *)
(*   src/main.py         WebScraper (clean_url, fetch_html, ...)           *)
(*   src/KBank.py        KasikornSeleniumScraper ("root" variant)          *)
(*   src/Kbank/KBank.py  KasikornSeleniumScraper ("pkg" variant)           *)
(*                                                                         *)
(* Text is modelled character by character: a string is a sequence of      *)
(* one-character symbols.  ASCII characters stand for themselves; a Thai   *)
(* character is written as an upper-case transliteration of two or more    *)
(* letters ("NO" for U+0E19), so that it can never be confused with a      *)
(* Latin letter.  A Thai month name is one symbol ("M04" for April): the   *)
(* date normaliser only ever compares whole month names.                   *)
(***************************************************************************)
EXTENDS Integers, Sequences, FiniteSets, TLC

VARIABLES
    url_pc,      \* clean_url: "idle", "once" (called), "twice" (result fed back)
    url_in,      \* clean_url: the raw url handed in (None before a call)
    url_out,     \* clean_url: the value returned
    url_again,   \* clean_url applied to url_out
    url_base,    \* self.base_url of the scraper clean_url is called on
    f_fn,        \* fetch: "fetch_html" (main.py) or "fetch_page" (KBank.py)
    f_url,       \* fetch: the url argument, replaced by clean_url's result
    f_retries,   \* fetch: the retries argument
    f_delay,     \* fetch_html: the delay argument
    f_driver,    \* fetch_page: self.driver is set / setup_driver() will work
    f_pc,        \* fetch: "start", "pace", "request", "backoff", "done"
    f_attempt,   \* fetch: the loop variable attempt
    f_outcomes,  \* fetch: what the collaborator answered, attempt by attempt
    f_paces,     \* fetch: the pacing sleeps taken so far, in seconds
    f_backoffs,  \* fetch: the backoff sleeps taken so far, in seconds
    f_result,    \* fetch: <<"pending">>, <<"html">>, <<"short_html">> or None
    d_pc,        \* extract_date: "idle" or "done"
    d_variant,   \* extract_date: "root" (src/KBank.py) or "pkg" (src/Kbank/KBank.py)
    d_kind,      \* how the text was written: "thai", "dmy", "ymd" or "other"
    d_parts,     \* the day, month and year the text was written from
    d_text,      \* extract_date: the argument
    d_out,       \* extract_date: the value returned
    n_pc,        \* names: "idle" or "done"
    n_variant,   \* names: "root" (src/KBank.py) or "pkg" (src/Kbank/KBank.py)
    n_title,     \* the title the name was written with (<<>>: none)
    n_tokens,    \* the words the name was written with, after the title
    n_name,      \* the full name handed to the functions
    n_parse,     \* what parse_name returned (or that it raised)
    n_prefix,    \* what extract_prefix / add_prefix returned
    s_pc,        \* scrape_executives: "idle", "start", "container", "rows",
                 \*   "items", "after", "fallback", "done"
    s_variant,   \* scrape_executives: "root" (src/KBank.py), "pkg" (src/Kbank/KBank.py)
    s_limit,     \* scrape_executives: the limit argument
    s_page,      \* scrape_executives: what the selectors find in the fetched page
    s_ti,        \* scrape_executives: index of the container in executive_tables
    s_ri,        \* scrape_executives: index of the row, item or element
    executives,  \* scrape_executives: the list returned
    exec_count,  \* scrape_executives: the counter compared with limit
    p_pc,        \* parse_page: "idle", "start", "select", "done"
    p_html,      \* parse_page: the article elements of the page, in document order
    p_today,     \* parse_page: the date datetime.now() gives
    p_si,        \* parse_page: index of the selector in article_selectors
    p_ai,        \* parse_page: index of the article in soup.select(selector)
    articles,    \* parse_page: the list returned
    w_pc,        \* scrape_website: "idle", "fetch", "parse", "done"
    w_num_pages, \* scrape_website: the num_pages argument
    w_now,       \* scrape_website: datetime.now() at entry (date and seconds of the day)
    w_page,      \* scrape_website: the loop variable page
    w_html,      \* scrape_website: what fetch_html returned for the page
    w_log,       \* scrape_website: the fetches, parses and filters done, in order
    all_articles, \* scrape_website: the list returned
    r_prog,      \* main: the program run, "root", "pkg" (the KBank variants) or "main"
    r_pc,        \* main: "idle", "start", "scrape", "fetch", "extract", "save",
                 \*       "except", "finally", "returned", "raised"
    r_scraper,   \* main: whether the local name scraper is bound
    r_driver,    \* main: self.driver of the scraper: "none", "open", "quit"
    r_sessions,  \* main: the requests.Session objects created, each "open" or "closed"
    r_data,      \* main: whether executives / scraped_data is non-empty
    r_log        \* main: the steps taken and their outcomes, in order

urlVars == <<url_pc, url_in, url_out, url_again, url_base>>
fetchVars == <<f_fn, f_url, f_retries, f_delay, f_driver, f_pc, f_attempt,
               f_outcomes, f_paces, f_backoffs, f_result>>

dateVars == <<d_pc, d_variant, d_kind, d_parts, d_text, d_out>>

nameVars == <<n_pc, n_variant, n_title, n_tokens, n_name, n_parse, n_prefix>>

scrapeVars == <<s_pc, s_variant, s_limit, s_page, s_ti, s_ri, executives, exec_count>>

pageVars == <<p_pc, p_html, p_today, p_si, p_ai, articles>>

siteVars == <<w_pc, w_num_pages, w_now, w_page, w_html, w_log, all_articles>>

runVars == <<r_prog, r_pc, r_scraper, r_driver, r_sessions, r_data, r_log>>

vars == <<urlVars, fetchVars, dateVars, nameVars, scrapeVars, pageVars, siteVars, runVars>>

None == <<"None">>      \* Python's None; no string holds the symbol "None"

-----------------------------------------------------------------------------
(* Characters and the str methods the sources use *)

SP  == " "
NL  == "NL"             \* "\n"
BSL == "BSL"            \* "\\"

Whitespace == {SP, NL, "TAB"}
Digits == {"0", "1", "2", "3", "4", "5", "6", "7", "8", "9"}
Letters == {"a", "b", "c", "d", "e", "f", "g", "h", "i", "j", "k", "l", "m",
            "n", "o", "p", "q", "r", "s", "t", "u", "v", "w", "x", "y", "z"}

RECURSIVE LStripChars(_, _)
LStripChars(s, cs) ==
    IF s # <<>> /\ Head(s) \in cs THEN LStripChars(Tail(s), cs) ELSE s

RECURSIVE RStripChars(_, _)
RStripChars(s, cs) ==
    IF s # <<>> /\ s[Len(s)] \in cs
    THEN RStripChars(SubSeq(s, 1, Len(s) - 1), cs) ELSE s

StripChars(s, cs) == RStripChars(LStripChars(s, cs), cs)

Strip(s) == StripChars(s, Whitespace)
LStrip(s) == LStripChars(s, Whitespace)

StartsWith(s, p) == Len(p) <= Len(s) /\ SubSeq(s, 1, Len(p)) = p

EndsWith(s, p) == Len(p) <= Len(s) /\ SubSeq(s, Len(s) - Len(p) + 1, Len(s)) = p

Drop(s, n) == SubSeq(s, n + 1, Len(s))

Contains(s, p) == \E i \in 0..(Len(s) - Len(p)) : SubSeq(s, i + 1, i + Len(p)) = p

\* the least index at which character c occurs in s, 0 when it does not
IndexOf(s, c) ==
    IF \E i \in 1..Len(s) : s[i] = c
    THEN CHOOSE i \in 1..Len(s) : s[i] = c /\ \A j \in 1..(i - 1) : s[j] # c
    ELSE 0

ReplaceChar(s, a, b) == [i \in 1..Len(s) |-> IF s[i] = a THEN b ELSE s[i]]

AllDigits(s) == \A i \in 1..Len(s) : s[i] \in Digits

-----------------------------------------------------------------------------
(* WebScraper.clean_url  (src/main.py) *)

base_url == <<"h","t","t","p","s",":","/","/","w","w","w",".",
              "i","n","n","w","h","y",".","c","o","m","/">>

TargetDomain == <<"i","n","n","w","h","y",".","c","o","m">>

HttpPrefix  == <<"h","t","t","p",":","/","/">>
HttpsPrefix == <<"h","t","t","p","s",":","/","/">>

\* \d{4}-\d{2}-\d{2} at the very start of s
IsDateShape(s) ==
    /\ Len(s) = 10
    /\ AllDigits(SubSeq(s, 1, 4)) /\ s[5] = "-"
    /\ AllDigits(SubSeq(s, 6, 7)) /\ s[8] = "-"
    /\ AllDigits(SubSeq(s, 9, 10))

\* re.sub(r',+\d{4}-\d{2}-\d{2}$', '', url): "$" matches at the end of the
\* string and before a newline that ends it; ",+" takes the whole run of
\* commas in front of the date (the leftmost match)
SubDateSuffixAt(s, end) ==
    IF end >= 11 /\ IsDateShape(SubSeq(s, end - 9, end)) /\ s[end - 10] = ","
    THEN RStripChars(SubSeq(s, 1, end - 10), {","}) \o SubSeq(s, end + 1, Len(s))
    ELSE s

SubDateSuffix(s) ==
    IF SubDateSuffixAt(s, Len(s)) # s THEN SubDateSuffixAt(s, Len(s))
    ELSE IF s # <<>> /\ s[Len(s)] = NL THEN SubDateSuffixAt(s, Len(s) - 1)
    ELSE s

\* urlsplit's scheme: the text before the first ":" when it is made of
\* letters only; <<>> when the url has none
UrlScheme(u) ==
    LET i == IndexOf(u, ":")
    IN  IF i > 1 /\ \A j \in 1..(i - 1) : u[j] \in Letters
        THEN SubSeq(u, 1, i - 1) ELSE <<>>

\* urljoin(base, rel) for the references of this model.  urlsplit drops the
\* leading whitespace of a url before it reads the scheme.  A reference with
\* a scheme other than the base's is returned as it is; any other reference
\* is a relative path without dot segments, query or fragment, and the base
\* ends with "/", so the reference is appended to the base
urljoin(base, rel) ==
    LET r == LStrip(rel)
    IN  IF UrlScheme(r) # <<>> /\ UrlScheme(r) # UrlScheme(base)
        THEN rel
        ELSE base \o r

\* urlparse(url).netloc: after "scheme://", up to the first "/", "?" or "#"
Netloc(url) ==
    LET u    == LStrip(url)
        sch  == UrlScheme(u)
        rest == Drop(u, Len(sch) + 1)
    IN  IF sch # <<>> /\ StartsWith(rest, <<"/", "/">>)
        THEN LET r == Drop(rest, 2)
                 stops == {i \in 1..Len(r) : r[i] \in {"/", "?", "#"}}
                 stop == IF stops = {} THEN Len(r) + 1
                         ELSE CHOOSE i \in stops : \A j \in stops : i <= j
             IN  SubSeq(r, 1, stop - 1)
        ELSE <<>>

\* the domain test of line 93: the target domain occurs somewhere in netloc
DomainCheck(netloc) == netloc # <<>> /\ Contains(netloc, TargetDomain)

\* clean_url on a scraper whose self.base_url is base
WebScraper_clean_url(base, url) ==
    IF url = None \/ url = <<>> THEN None
    ELSE LET u1 == StripChars(ReplaceChar(Strip(url), BSL, "/"), {","})
             u2 == SubDateSuffix(u1)
             u3 == IF StartsWith(u2, HttpPrefix) \/ StartsWith(u2, HttpsPrefix)
                   THEN u2
                   ELSE urljoin(base, LStripChars(u2, {"/"}))
         IN  IF DomainCheck(Netloc(u3)) THEN u3 ELSE None

\* clean_url on a scraper constructed with the default base_url
clean_url(url) == WebScraper_clean_url(base_url, url)

\* news_url = urljoin("https://www.innwhy.com/", "pr-news/"): the base_url
\* of the first scraper of main()
news_url == urljoin(base_url, <<"p","r","-","n","e","w","s","/">>)

BaseUrls == {base_url, news_url}

-----------------------------------------------------------------------------
(* Raw urls handed to clean_url *)

EvilHost == <<"e","v","i","l",".","o","r","g">>
DateText == <<"2","0","2","4","-","0","1","-","0","5">>

UrlHeads ==
    { HttpsPrefix \o Drop(base_url, 8),                         \* the base itself
      HttpsPrefix \o TargetDomain \o <<"/">>,
      HttpPrefix \o TargetDomain \o <<"/">>,
      HttpsPrefix \o EvilHost \o <<"/">>,
      HttpsPrefix \o EvilHost \o <<"/">> \o TargetDomain \o <<"/">>,
      HttpsPrefix \o TargetDomain \o <<".">> \o EvilHost \o <<"/">>,
      HttpsPrefix \o <<"n","o","t">> \o TargetDomain \o <<"/">>,
      HttpsPrefix \o TargetDomain \o <<"@">> \o EvilHost \o <<"/">>,
      <<"f","t","p",":","/","/">> \o EvilHost \o <<"/">>,
      <<"f","t","p",":","/","/">> \o TargetDomain \o <<"/">>,
      <<"/","/">> \o EvilHost \o <<"/">>,
      <<"/">>,
      <<>> }

UrlPaths == { <<>>, <<"a">>, <<"a", BSL, "b">>, <<"a", SP, "b">> }

UrlTails ==
    { <<>>, <<",">>, <<SP, ",">>, <<",", SP>>,
      <<",">> \o DateText,
      <<",", ",">> \o DateText,
      <<",">> \o DateText \o <<",">> \o DateText,
      <<",">> \o DateText \o <<",">> }

UrlLeads == { <<>>, <<SP>>, <<",">> }

RawUrls ==
    { l \o h \o p \o t : l \in UrlLeads, h \in UrlHeads, p \in UrlPaths, t \in UrlTails }
        \cup {None}

-----------------------------------------------------------------------------------------------------------------------------------------------------
(* WebScraper.fetch_html (src/main.py) and KasikornSeleniumScraper.fetch_page
   (src/KBank.py, and the same text in src/Kbank/KBank.py).  Sleeps are in
   whole seconds; random.uniform(a, b) is any value of a..b. *)

MaxRetries == 3         \* the largest retries argument tried
MaxDelay == 2           \* the largest delay argument tried

PageBackoffBase == 5    \* backoff_time = 5 * (attempt + 1) + ...
PageBackoffJitterLo == 1
PageBackoffJitterHi == 5
PagePaceBase == 2       \* time.sleep(2 + random.uniform(1, 3))
PagePaceJitterLo == 1
PagePaceJitterHi == 3

\* what the collaborator (session.get / driver.get) does on one attempt:
\* a page, a page of at most 500 characters, or a transport-level failure
\* (RequestException, non-2xx status, WebDriverException)
Outcomes == {"ok", "short", "error"}

\* fetch_html returns response.text whatever its length; fetch_page returns
\* page_source only when len(page_source) > 500
AttemptSucceeds(fn, outcome) ==
    IF fn = "fetch_html" THEN outcome \in {"ok", "short"} ELSE outcome = "ok"

\* time.sleep(delay) before each request of fetch_html;
\* time.sleep(2 + random.uniform(1, 3)) before each request of fetch_page
PaceTimes(fn, delay) ==
    IF fn = "fetch_html" THEN {delay}
    ELSE {PagePaceBase + j : j \in PagePaceJitterLo..PagePaceJitterHi}

BackoffTimesNoGrowth(fn, delay, attempt) ==
    IF fn = "fetch_html" THEN {delay}
    ELSE {PageBackoffBase + j : j \in PageBackoffJitterLo..PageBackoffJitterHi}

\* time.sleep(delay * (attempt + 1)) in fetch_html;
\* 5 * (attempt + 1) + random.uniform(1, 5) in fetch_page
BackoffTimes(fn, delay, attempt) ==
    IF fn = "fetch_html" THEN {delay * (attempt + 1)}
    ELSE {PageBackoffBase * (attempt + 1) + j :
            j \in PageBackoffJitterLo..PageBackoffJitterHi}

\* the urls a fetch is asked for
FetchUrls == { base_url, base_url \o <<"p","a","g","e","/","2">>,
               HttpsPrefix \o EvilHost \o <<"/">> }

\* entry of the function: fetch_html cleans the url and gives up on None;
\* fetch_page sets the driver up when there is none and gives up when
\* setup_driver() fails
FetchBegin ==
    /\ f_pc = "start"
    /\ IF f_fn = "fetch_html"
       THEN /\ f_url' = clean_url(f_url)
            /\ IF clean_url(f_url) = None
               THEN f_pc' = "done" /\ f_result' = None
               ELSE f_pc' = "pace" /\ UNCHANGED f_result
       ELSE /\ UNCHANGED f_url
            /\ IF f_driver
               THEN f_pc' = "pace" /\ UNCHANGED f_result
               ELSE f_pc' = "done" /\ f_result' = None
    /\ UNCHANGED <<f_fn, f_retries, f_delay, f_driver, f_attempt, f_outcomes,
                   f_paces, f_backoffs, urlVars, dateVars, nameVars, scrapeVars, pageVars, siteVars, runVars>>

\* head of `for attempt in range(retries)`: the pacing sleep of the next
\* attempt
FetchPace ==
    /\ f_pc = "pace" /\ f_attempt < f_retries
    /\ \E t \in PaceTimes(f_fn, f_delay) : f_paces' = Append(f_paces, t)
    /\ f_pc' = "request"
    /\ UNCHANGED <<f_fn, f_url, f_retries, f_delay, f_driver, f_attempt,
                   f_outcomes, f_backoffs, f_result, urlVars, dateVars, nameVars, scrapeVars, pageVars, siteVars, runVars>>

\* the loop is exhausted (or retries <= 0): both functions return None
FetchExhausted ==
    /\ f_pc = "pace" /\ f_attempt >= f_retries
    /\ f_pc' = "done" /\ f_result' = None
    /\ UNCHANGED <<f_fn, f_url, f_retries, f_delay, f_driver, f_attempt,
                   f_outcomes, f_paces, f_backoffs, urlVars, dateVars, nameVars, scrapeVars, pageVars, siteVars, runVars>>

\* a request whose failure is always followed by the backoff sleep, the
\* failure of the last attempt as well
FetchRequestAlwaysBackoff ==
    /\ f_pc = "request"
    /\ \E o \in Outcomes :
         /\ f_outcomes' = Append(f_outcomes, o)
         /\ IF AttemptSucceeds(f_fn, o)
            THEN /\ f_pc' = "done"
                 /\ f_result' = IF o = "ok" THEN <<"html">> ELSE <<"short_html">>
            ELSE f_pc' = "backoff" /\ UNCHANGED f_result
    /\ UNCHANGED <<f_fn, f_url, f_retries, f_delay, f_driver, f_paces, f_attempt,
                   f_backoffs, urlVars, dateVars, nameVars, scrapeVars, pageVars, siteVars, runVars>>

\* one request and what follows it up to the next sleep: success returns the
\* page; a failure of the last attempt ends the loop (fetch_html returns None
\* on the spot), any other failure goes on to the backoff sleep
FetchRequest ==
    /\ f_pc = "request"
    /\ \E o \in Outcomes :
         /\ f_outcomes' = Append(f_outcomes, o)
         /\ IF AttemptSucceeds(f_fn, o)
            THEN /\ f_pc' = "done"
                 /\ f_result' = IF o = "ok" THEN <<"html">> ELSE <<"short_html">>
                 /\ UNCHANGED f_attempt
            ELSE IF f_attempt < f_retries - 1
            THEN f_pc' = "backoff" /\ UNCHANGED <<f_result, f_attempt>>
            ELSE IF f_fn = "fetch_html"
            THEN f_pc' = "done" /\ f_result' = None /\ UNCHANGED f_attempt
            ELSE f_pc' = "pace" /\ f_attempt' = f_attempt + 1 /\ UNCHANGED f_result
    /\ UNCHANGED <<f_fn, f_url, f_retries, f_delay, f_driver, f_paces,
                   f_backoffs, urlVars, dateVars, nameVars, scrapeVars, pageVars, siteVars, runVars>>

\* the backoff sleep, then the next iteration
FetchBackoff ==
    /\ f_pc = "backoff"
    /\ \E t \in BackoffTimes(f_fn, f_delay, f_attempt) :
         f_backoffs' = Append(f_backoffs, t)
    /\ f_attempt' = f_attempt + 1
    /\ f_pc' = "pace"
    /\ UNCHANGED <<f_fn, f_url, f_retries, f_delay, f_driver, f_outcomes,
                   f_paces, f_result, urlVars, dateVars, nameVars, scrapeVars, pageVars, siteVars, runVars>>

-----------------------------------------------------------------------------
(* KasikornSeleniumScraper.extract_date: src/KBank.py ("root", dd-mm-yyyy,
   "" when nothing matches) and src/Kbank/KBank.py ("pkg", yyyy-mm-dd, the
   text itself when nothing matches) *)

DigitSeq == <<"0", "1", "2", "3", "4", "5", "6", "7", "8", "9">>

DigitVal(c) == (CHOOSE i \in 1..10 : DigitSeq[i] = c) - 1

RECURSIVE NatVal(_)
NatVal(s) ==
    IF s = <<>> THEN 0
    ELSE 10 * NatVal(SubSeq(s, 1, Len(s) - 1)) + DigitVal(s[Len(s)])

\* int(s): [ok |-> FALSE] stands for the ValueError
PyInt(s) ==
    IF s # <<>> /\ AllDigits(s) THEN [ok |-> TRUE, val |-> NatVal(s)]
    ELSE IF Len(s) > 1 /\ s[1] \in {"+", "-"} /\ AllDigits(Tail(s))
    THEN [ok |-> TRUE, val |-> IF s[1] = "-" THEN 0 - NatVal(Tail(s))
                               ELSE NatVal(Tail(s))]
    ELSE [ok |-> FALSE, val |-> 0]

\* str(n)
RECURSIVE PyStr(_)
PyStr(n) ==
    IF n < 0 THEN <<"-">> \o PyStr(0 - n)
    ELSE IF n < 10 THEN <<DigitSeq[n + 1]>>
    ELSE PyStr(n \div 10) \o <<DigitSeq[(n % 10) + 1]>>

\* s.zfill(2)
ZFill2(s) ==
    IF Len(s) >= 2 THEN s
    ELSE IF Len(s) = 0 THEN <<"0", "0">>
    ELSE IF s[1] \in {"+", "-"} THEN <<s[1], "0">>
    ELSE <<"0", s[1]>>

\* s.split(): the maximal runs of non-whitespace characters
RECURSIVE Split(_)
Split(s) ==
    LET t == LStrip(s)
        ws == {i \in 1..Len(t) : t[i] \in Whitespace}
        n == IF ws = {} THEN Len(t) + 1 ELSE CHOOSE i \in ws : \A j \in ws : i <= j
    IN  IF t = <<>> THEN <<>>
        ELSE <<SubSeq(t, 1, n - 1)>> \o Split(Drop(t, n - 1))

\* th_months in the order of the dict: the k-th symbol is month k
th_months == <<"M01", "M02", "M03", "M04", "M05", "M06",
               "M07", "M08", "M09", "M10", "M11", "M12">>

month_num(k) == ZFill2(PyStr(k))

BuddhistEraLimit == 2500
BuddhistEraOffset == 543

ToCommonEraNoShift(year) == year

\* if int(year) > 2500: year = str(int(year) - 543)   (year is all digits)
ToCommonEra(year) ==
    IF NatVal(year) > BuddhistEraLimit
    THEN PyStr(NatVal(year) - BuddhistEraOffset) ELSE year

\* the loop over th_months and over the tokens: the first month of the
\* dict that has a token equal to it with a token on each side, and the
\* first such token
ThaiHits(text) ==
    LET parts == Split(text)
    IN  { h \in (1..12) \X (1..Len(parts)) :
            /\ \E c \in 1..Len(text) : text[c] = th_months[h[1]]
            /\ parts[h[2]] = <<th_months[h[1]]>>
            /\ h[2] > 1 /\ h[2] < Len(parts) }

FirstThaiHit(text) ==
    CHOOSE h \in ThaiHits(text) :
        \A g \in ThaiHits(text) : h[1] < g[1] \/ (h[1] = g[1] /\ h[2] <= g[2])

\* (\d{1,2})/(\d{1,2})/(\d{4}) matched at position i: the lengths of the
\* day and the month group (<<0, 0>>: no match at i)
DmyAt(s, i) ==
    LET dl == IF i + 2 <= Len(s) /\ s[i] \in Digits /\ s[i+1] \in Digits /\ s[i+2] = "/"
              THEN 2
              ELSE IF i + 1 <= Len(s) /\ s[i] \in Digits /\ s[i+1] = "/" THEN 1
              ELSE 0
        m == i + dl + 1
        ml == IF dl = 0 THEN 0
              ELSE IF m + 2 <= Len(s) /\ s[m] \in Digits /\ s[m+1] \in Digits /\ s[m+2] = "/"
              THEN 2
              ELSE IF m + 1 <= Len(s) /\ s[m] \in Digits /\ s[m+1] = "/" THEN 1
              ELSE 0
        y == m + ml + 1
    IN  IF ml > 0 /\ y + 3 <= Len(s) /\ AllDigits(SubSeq(s, y, y + 3))
        THEN <<dl, ml>> ELSE <<0, 0>>

\* (\d{4})-(\d{1,2})-(\d{1,2}) matched at position i: the lengths of the
\* month and the day group
YmdAt(s, i) ==
    LET m == i + 5
        ml == IF ~(i + 4 <= Len(s) /\ AllDigits(SubSeq(s, i, i + 3)) /\ s[i+4] = "-")
              THEN 0
              ELSE IF m + 2 <= Len(s) /\ s[m] \in Digits /\ s[m+1] \in Digits /\ s[m+2] = "-"
              THEN 2
              ELSE IF m + 1 <= Len(s) /\ s[m] \in Digits /\ s[m+1] = "-" THEN 1
              ELSE 0
        d == m + ml + 1
        dl == IF ml = 0 \/ d > Len(s) \/ s[d] \notin Digits THEN 0
              ELSE IF d + 1 <= Len(s) /\ s[d+1] \in Digits THEN 2 ELSE 1
    IN  IF dl > 0 THEN <<ml, dl>> ELSE <<0, 0>>

\* re.search: the leftmost position with a match, 0 when there is none
SearchDmy(s) ==
    LET hits == {i \in 1..Len(s) : DmyAt(s, i) # <<0, 0>>}
    IN  IF hits = {} THEN 0 ELSE CHOOSE i \in hits : \A j \in hits : i <= j

SearchYmd(s) ==
    LET hits == {i \in 1..Len(s) : YmdAt(s, i) # <<0, 0>>}
    IN  IF hits = {} THEN 0 ELSE CHOOSE i \in hits : \A j \in hits : i <= j

\* f"{day}-{month}-{year}" in src/KBank.py, f"{year}-{month}-{day}" in
\* src/Kbank/KBank.py
FormatDate(variant, day, month, year) ==
    IF variant = "root" THEN day \o <<"-">> \o month \o <<"-">> \o year
    ELSE year \o <<"-">> \o month \o <<"-">> \o day

\* what the function returns when no pattern matches or int() raises
DateFallback(variant, text) == IF variant = "root" THEN <<>> ELSE text

\* the Thai branch once day, month and year are cut out: a 4-character
\* year goes through int() (ValueError: the fallback) and the era shift
ThaiDate(variant, text, day, month, year) ==
    IF Len(year) = 4
    THEN IF PyInt(year).ok
         THEN FormatDate(variant, day, month,
                         IF PyInt(year).val > BuddhistEraLimit
                         THEN PyStr(PyInt(year).val - BuddhistEraOffset)
                         ELSE year)
         ELSE DateFallback(variant, text)
    ELSE FormatDate(variant, day, month, year)

\* parts[i-1], th_months[month], parts[i+1] around the hit h
ThaiDateAt(variant, text, parts, h) ==
    ThaiDate(variant, text, ZFill2(parts[h[2] - 1]), month_num(h[1]), parts[h[2] + 1])

\* day, month, year = match.groups() of the dd/mm/yyyy match at i with
\* group lengths g
DmyDate(variant, text, i, g) ==
    FormatDate(variant,
               ZFill2(SubSeq(text, i, i + g[1] - 1)),
               ZFill2(SubSeq(text, i + g[1] + 1, i + g[1] + g[2])),
               ToCommonEra(SubSeq(text, i + g[1] + g[2] + 2, i + g[1] + g[2] + 5)))

\* year, month, day = match.groups() of the yyyy-mm-dd match at i with
\* group lengths g
YmdDate(variant, text, i, g) ==
    FormatDate(variant,
               ZFill2(SubSeq(text, i + 6 + g[1], i + 5 + g[1] + g[2])),
               ZFill2(SubSeq(text, i + 5, i + 4 + g[1])),
               ToCommonEra(SubSeq(text, i, i + 3)))

extract_date(variant, text) ==
    IF text = None \/ text = <<>> \/ text = <<"-">> THEN <<>>
    ELSE IF ThaiHits(text) # {}
    THEN ThaiDateAt(variant, text, Split(text), FirstThaiHit(text))
    ELSE IF SearchDmy(text) # 0
    THEN DmyDate(variant, text, SearchDmy(text), DmyAt(text, SearchDmy(text)))
    ELSE IF SearchYmd(text) # 0
    THEN YmdDate(variant, text, SearchYmd(text), YmdAt(text, SearchYmd(text)))
    ELSE DateFallback(variant, text)

-----------------------------------------------------------------------------
(* Titles and names: extract_prefix and parse_name of src/KBank.py ("root"),
   parse_name and add_prefix of src/Kbank/KBank.py ("pkg").  An English
   prefix that a function returns is written as one symbol ("Assoc Prof"). *)

TNai     == <<"NO", "AA", "YO">>
TNang    == <<"NO", "AA", "NGO">>
TNangSao == <<"NO", "AA", "NGO", "SO", "AA", "WO">>
TDr      == <<"DO", "RO", ".">>
TSo      == <<"SHO", ".">>
TRoSo    == <<"RO", "SHO", ".">>
TPhoSo   == <<"PHO", "SHO", ".">>
EMr      == <<"M", "r", ".">>
EMrs     == <<"M", "r", "s", ".">>
EMiss    == <<"M", "i", "s", "s">>
EDr      == <<"D", "r", ".">>
EProf    == <<"P", "r", "o", "f", ".">>
EProfessor == <<"P", "r", "o", "f", "e", "s", "s", "o", "r">>
EAssoc   == <<"A", "s", "s", "o", "c", ".", SP>> \o EProf
EAsst    == <<"A", "s", "s", "t", ".", SP>> \o EProf

\* the dict of extract_prefix (src/KBank.py), in the order it is written
prefix_titles_root ==
    << <<TNai, "Mr">>, <<TNang, "Mrs">>, <<TNangSao, "Miss">>, <<TDr, "Dr">>,
       <<TSo, "Prof">>, <<TRoSo, "Assoc Prof">>, <<TPhoSo, "Asst Prof">>,
       <<TSo \o TDr, "Prof Dr">>, <<TRoSo \o TDr, "Assoc Prof Dr">>,
       <<TPhoSo \o TDr, "Asst Prof Dr">>,
       <<EMr, "Mr">>, <<EMrs, "Mrs">>, <<EMiss, "Ms">>, <<EDr, "Dr">>,
       <<EProf, "Prof">>, <<EProfessor, "Prof">>, <<EAssoc, "Assoc Prof">>,
       <<EAsst, "Asst Prof">>, <<EProf \o <<SP>> \o EDr, "Prof Dr">> >>

\* the keys of the dict of parse_name (src/KBank.py), in the order written
parse_titles_root ==
    << TNai, TNang, TNangSao, TDr, TSo, TRoSo, TPhoSo,
       TSo \o TDr, TRoSo \o TDr, TPhoSo \o TDr,
       EMr, EMrs, EMiss, EDr, EProf, EProfessor, EAssoc, EAsst,
       EProf \o <<SP>> \o EDr, EAssoc \o <<SP>> \o EDr, EAsst \o <<SP>> \o EDr >>

\* thai_titles of parse_name (src/Kbank/KBank.py), in the order written
thai_titles ==
    << TNai, TNang, TNangSao, TDr, TSo, TRoSo, TPhoSo,
       TSo \o TDr, TRoSo \o TDr, TPhoSo \o TDr >>

\* thai_to_eng_prefixes of add_prefix (src/Kbank/KBank.py)
thai_to_eng_prefixes ==
    << <<TNai, "Mr.">>, <<TNang, "Mrs.">>, <<TNangSao, "Miss">>, <<TDr, "Dr.">>,
       <<TSo, "Prof.">>, <<TRoSo, "Assoc. Prof.">>, <<TPhoSo, "Asst. Prof.">>,
       <<TSo \o TDr, "Prof. Dr.">>, <<TRoSo \o TDr, "Assoc. Prof. Dr.">>,
       <<TPhoSo \o TDr, "Asst. Prof. Dr.">> >>

Keys(dict) == [i \in 1..Len(dict) |-> dict[i][1]]

\* sorted(titles, key=len, reverse=True): a stable sort, longest first
RECURSIVE SortedByLen(_)
SortedByLen(q) ==
    IF q = <<>> THEN <<>>
    ELSE LET x == q[Len(q)]
             r == SortedByLen(SubSeq(q, 1, Len(q) - 1))
             k == Cardinality({i \in 1..Len(r) : Len(r[i]) >= Len(x)})
         IN  SubSeq(r, 1, k) \o <<x>> \o SubSeq(r, k + 1, Len(r))

AsWritten(q) == q

\* sorted_titles of extract_prefix and of parse_name (src/KBank.py)
sorted_titles(q) == SortedByLen(q)

\* `for title in titles: if full_name.startswith(title): ... break`:
\* the first title of the sequence the name starts with (<<>>: none does)
FirstTitle(titles, name) ==
    LET hits == {i \in 1..Len(titles) : StartsWith(name, titles[i])}
    IN  IF hits = {} THEN <<>>
        ELSE titles[CHOOSE i \in hits : \A j \in hits : i <= j]

\* the title each function takes off a (stripped) name
MatchedTitle(fn, name) ==
    IF fn = "extract_prefix" THEN FirstTitle(sorted_titles(Keys(prefix_titles_root)), name)
    ELSE IF fn = "parse_name_root" THEN FirstTitle(sorted_titles(parse_titles_root), name)
    ELSE IF fn = "parse_name_pkg" THEN FirstTitle(thai_titles, name)
    ELSE FirstTitle(Keys(thai_to_eng_prefixes), name)

Lookup(dict, key) == dict[CHOOSE i \in 1..Len(dict) : dict[i][1] = key][2]

\* " ".join(parts)
RECURSIVE JoinSpace(_)
JoinSpace(parts) ==
    IF parts = <<>> THEN <<>>
    ELSE IF Len(parts) = 1 THEN parts[1]
    ELSE parts[1] \o <<SP>> \o JoinSpace(Tail(parts))

\* extract_prefix of src/KBank.py
extract_prefix(full_name) ==
    IF full_name = None \/ full_name = <<>> THEN ""
    ELSE LET t == MatchedTitle("extract_prefix", Strip(full_name))
         IN  IF t = <<>> THEN "" ELSE Lookup(prefix_titles_root, t)

SplitNameFirstTwo(rest) ==
    LET name_parts == Split(rest)
    IN  IF Len(name_parts) = 1
        THEN [raised |-> FALSE, first_name |-> name_parts[1], surname |-> <<>>]
        ELSE IF name_parts = <<>>
        THEN [raised |-> TRUE, first_name |-> <<>>, surname |-> <<>>]
        ELSE [raised |-> FALSE, first_name |-> name_parts[1],
              surname |-> IF Len(name_parts) >= 2 THEN name_parts[2] ELSE <<>>]

\* the tail of both parse_name functions: split, then first part / the rest;
\* name_parts[0] on an empty list is the IndexError (raised |-> TRUE)
SplitName(rest) ==
    LET name_parts == Split(rest)
    IN  IF Len(name_parts) = 1
        THEN [raised |-> FALSE, first_name |-> name_parts[1], surname |-> <<>>]
        ELSE IF name_parts = <<>>
        THEN [raised |-> TRUE, first_name |-> <<>>, surname |-> <<>>]
        ELSE [raised |-> FALSE, first_name |-> name_parts[1],
              surname |-> JoinSpace(Tail(name_parts))]

\* parse_name of src/KBank.py ("root") and of src/Kbank/KBank.py ("pkg")
parse_name(variant, full_name) ==
    IF full_name = None \/ full_name = <<>>
    THEN [raised |-> FALSE, first_name |-> <<>>, surname |-> <<>>]
    ELSE LET name == Strip(full_name)
             t == MatchedTitle(IF variant = "root" THEN "parse_name_root"
                               ELSE "parse_name_pkg", name)
         IN  SplitName(IF variant = "root" THEN LStrip(Drop(name, Len(t)))
                       ELSE Strip(Drop(name, Len(t))))

\* add_prefix of src/Kbank/KBank.py
add_prefix(full_name) ==
    IF full_name = None \/ full_name = <<>>
    THEN [prefix |-> "", prefixed_name |-> <<>>, clean_name |-> <<>>]
    ELSE LET name == Strip(full_name)
             t == MatchedTitle("add_prefix", name)
             prefix == IF t = <<>> THEN "Mr." ELSE Lookup(thai_to_eng_prefixes, t)
             clean_name == IF t = <<>> THEN name ELSE Strip(Drop(name, Len(t)))
         IN  [prefix |-> prefix,
              prefixed_name |-> <<prefix, SP>> \o clean_name,
              clean_name |-> clean_name]

\* the prefix a record gets: extract_prefix in src/KBank.py, the first
\* component of add_prefix in src/Kbank/KBank.py
PrefixOf(variant, full_name) ==
    IF variant = "root" THEN extract_prefix(full_name)
    ELSE add_prefix(full_name).prefix

-----------------------------------------------------------------------------
(* KasikornSeleniumScraper.scrape_executives: src/KBank.py ("root") and
   src/Kbank/KBank.py ("pkg").

   A page is what the selectors find in it:
     primary  the containers of the first soup.select, in document order
     alt      the containers of the second soup.select
     live     the texts of the elements driver.find_elements returns
   A container is a table (kind "table", its tr rows) or a block (kind
   "div", the elements its item selector finds and, when it finds none,
   the elements "div" finds).  A row is its td texts, whether it holds a
   th, and whether it is a row of the table itself (own) or of a table
   nested in it; an item is the texts of its name, position and date elements
   (None: no such element).  Cell texts are get_text(strip=True) results.
   Rows and items hold no img element. *)

\* the number of non-overlapping occurrences of p in s, left to right
RECURSIVE CountSub(_, _)
CountSub(s, p) ==
    IF Len(s) < Len(p) THEN 0
    ELSE IF StartsWith(s, p) THEN 1 + CountSub(Drop(s, Len(p)), p)
    ELSE CountSub(Tail(s), p)

\* the text before / after the first occurrence of p in s (p occurs in s)
RECURSIVE BeforeSub(_, _)
BeforeSub(s, p) ==
    IF StartsWith(s, p) THEN <<>> ELSE <<Head(s)>> \o BeforeSub(Tail(s), p)

AfterSub(s, p) == Drop(s, Len(BeforeSub(s, p)) + Len(p))

Skip == [kind |-> "skip"]
Raise == [kind |-> "raise"]
Emit(rec) == [kind |-> "record", rec |-> rec]

\* the keys of the dict each variant appends
RecordKeys(variant) ==
    {"Prefixed_Name", "Full_Name", "First_Name", "Surname", "Position",
     "Start_Date", "End_Date"}
    \cup (IF variant = "pkg" THEN {"Image_URL", "Image_Path"} ELSE {})

\* executives.append({...}), from what parse_name and extract_prefix /
\* add_prefix returned; img_url and img_path are "" (no img element)
MakeRecord(variant, full_name, parsed, prefixed, position, start_date, end_date) ==
    [key \in RecordKeys(variant) |->
        CASE key = "Prefixed_Name" -> prefixed
          [] key = "Full_Name" -> full_name
          [] key = "First_Name" -> parsed.first_name
          [] key = "Surname" -> parsed.surname
          [] key = "Position" -> position
          [] key = "Start_Date" -> start_date
          [] key = "End_Date" -> end_date
          [] OTHER -> <<>>]

\* prefix (root) / prefixed_name (pkg) as stored under "Prefixed_Name"
PrefixedName(variant, full_name) ==
    IF variant = "root" THEN extract_prefix(full_name)
    ELSE add_prefix(full_name).prefixed_name

\* from the extracted texts to the outcome of the try block: an empty name
\* is skipped, an exception of parse_name is caught and the row skipped
NamedRecord(variant, full_name, position, start_date, end_date) ==
    LET parsed == parse_name(variant, full_name)
    IN  IF full_name = <<>> THEN Skip
        ELSE IF parsed.raised THEN Raise
        ELSE Emit(MakeRecord(variant, full_name, parsed,
                             PrefixedName(variant, full_name),
                             position, start_date, end_date))

\* one tr of a table: header rows and rows of fewer than 2 cells are
\* skipped; len(cols) >= 4 reads both dates, len(cols) == 3 the start
\* date, anything else no date
RowRecord(variant, row) ==
    LET cols == row.cells
        start_date == IF Len(cols) >= 3 THEN extract_date(variant, cols[3]) ELSE <<>>
        end_date == IF Len(cols) >= 4 THEN extract_date(variant, cols[4]) ELSE <<>>
    IN  IF row.th \/ Len(cols) < 2 THEN Skip
        ELSE NamedRecord(variant, cols[1], cols[2], start_date, end_date)

DateRangeSep == <<SP, "-", SP>>

\* one item of a block: the root variant reads one date; the pkg variant
\* splits the date text at " - " when that gives exactly two parts
ItemRecord(variant, item) ==
    LET full_name == IF item.name = None THEN <<>> ELSE item.name
        position == IF item.position = None THEN <<>> ELSE item.position
        dates_text == IF item.date = None THEN <<>> ELSE item.date
        ranged == variant = "pkg" /\ Contains(dates_text, DateRangeSep)
        two == CountSub(dates_text, DateRangeSep) = 1
        start_text == IF ranged THEN BeforeSub(dates_text, DateRangeSep) ELSE dates_text
        start_date ==
            IF (variant = "root" /\ item.date = None) \/ (ranged /\ ~two) THEN <<>>
            ELSE extract_date(variant, start_text)
        end_date ==
            IF ranged /\ two
            THEN extract_date(variant, AfterSub(dates_text, DateRangeSep))
            ELSE <<>>
    IN  NamedRecord(variant, full_name, position, start_date, end_date)

MinElementText == 5     \* len(elem_text) < 5: skipped
MaxNameWords == 5       \* len(words) > 5: skipped

\* the fallback pass without the test of the number of words
ElementRecordAnyWords(variant, text) ==
    LET elem_text == Strip(text)
        sep == IF Contains(elem_text, <<NL>>) THEN NL
               ELSE IF Contains(elem_text, <<":">>) THEN ":"
               ELSE IF Contains(elem_text, <<"-">>) THEN "-"
               ELSE "none"
        full_name == IF sep = "none" THEN elem_text
                     ELSE Strip(BeforeSub(elem_text, <<sep>>))
        position == IF sep = "none" THEN <<>>
                    ELSE Strip(AfterSub(elem_text, <<sep>>))
    IN  IF Len(elem_text) < MinElementText THEN Skip
        ELSE NamedRecord(variant, full_name, position, <<>>, <<>>)

\* one element of the fallback pass: the first two lines, or the text cut
\* at the first ":" or, without one, at the first "-"; full_name has a word,
\* so it is not empty
ElementRecord(variant, text) ==
    LET elem_text == Strip(text)
        sep == IF Contains(elem_text, <<NL>>) THEN NL
               ELSE IF Contains(elem_text, <<":">>) THEN ":"
               ELSE IF Contains(elem_text, <<"-">>) THEN "-"
               ELSE "none"
        rest == AfterSub(elem_text, <<sep>>)
        full_name == IF sep = "none" THEN elem_text
                     ELSE Strip(BeforeSub(elem_text, <<sep>>))
        position == IF sep = "none" THEN <<>>
                    ELSE IF sep = NL /\ Contains(rest, <<NL>>)
                    THEN Strip(BeforeSub(rest, <<NL>>))
                    ELSE Strip(rest)
        words == Split(full_name)
    IN  IF Len(elem_text) < MinElementText THEN Skip
        ELSE IF Len(words) > MaxNameWords \/ Len(words) < 1 THEN Skip
        ELSE NamedRecord(variant, full_name, position, <<>>, <<>>)

\* executive_tables: the first select, or the second when the first is empty
ExecutiveTables(page) == IF page.primary # <<>> THEN page.primary ELSE page.alt

\* executive_items of a block: the item selector, or "div" when it finds none
ExecutiveItems(container) ==
    IF container.items # <<>> THEN container.items ELSE container.divs

\* float('inf'), the limit main() passes: above every count, and no slice
\* index
Infinity == 1000000

\* exec_elements[:limit], for a limit that is an integer
Take(q, n) == SubSeq(q, 1, IF n < Len(q) THEN n ELSE Len(q))

\* what the image pass finds in the live document for the collected names:
\* no img element, an img whose download succeeds, an img whose download fails
ImageOutcomes == {"none", "saved", "failed"}
ImgSrc == <<"i", "m", "g">>
ImgFile == <<"j", "p", "g">>

\* executives[exec_idx]["Image_URL"] = img_url; ...["Image_Path"] = img_path
WithImage(rec, outcome) ==
    IF outcome = "none" THEN rec
    ELSE [rec EXCEPT !.Image_URL = ImgSrc,
                     !.Image_Path = IF outcome = "saved" THEN ImgFile ELSE <<>>]

\* html = self.fetch_page(self.base_url) gave nothing: return []
ScrapeFetchFails ==
    /\ s_pc = "start"
    /\ s_pc' = "done"
    /\ UNCHANGED <<s_variant, s_limit, s_page, s_ti, s_ri, executives, exec_count,
                   urlVars, fetchVars, dateVars, nameVars, pageVars, siteVars, runVars>>

\* the page is fetched and parsed; executives = [], exec_count = 0
ScrapeFetchOk(page) ==
    /\ s_pc = "start"
    /\ s_page' = page
    /\ executives' = <<>> /\ exec_count' = 0
    /\ s_ti' = 1 /\ s_ri' = 0
    /\ s_pc' = "container"
    /\ UNCHANGED <<s_variant, s_limit, urlVars, fetchVars, dateVars, nameVars, pageVars, siteVars, runVars>>

\* for table in executive_tables: a table goes to its rows, anything else
\* to its items; after the last container the loop is left
ScrapeContainer ==
    /\ s_pc = "container"
    /\ LET tables == ExecutiveTables(s_page)
       IN  IF s_ti > Len(tables)
           THEN s_pc' = "after" /\ UNCHANGED s_ri
           ELSE /\ s_pc' = IF tables[s_ti].kind = "table" THEN "rows" ELSE "items"
                /\ s_ri' = 1
    /\ UNCHANGED <<s_variant, s_limit, s_page, s_ti, executives, exec_count,
                   urlVars, fetchVars, dateVars, nameVars, pageVars, siteVars, runVars>>

\* the body shared by the three loops: a record is appended and counted,
\* and the loop (with the loop around it) is left once exec_count >= limit;
\* anything else moves on to the next row, item or element
Collect(outcome, capped) ==
    IF outcome.kind = "record"
    THEN /\ executives' = Append(executives, outcome.rec)
         /\ exec_count' = exec_count + 1
         /\ IF exec_count + 1 >= s_limit
            THEN s_pc' = capped /\ UNCHANGED s_ri
            ELSE s_ri' = s_ri + 1 /\ UNCHANGED s_pc
    ELSE /\ s_ri' = s_ri + 1
         /\ UNCHANGED <<s_pc, executives, exec_count>>

\* for row in rows
ScrapeRow ==
    /\ s_pc = "rows"
    /\ s_ri <= Len(ExecutiveTables(s_page)[s_ti].rows)
    /\ \E outcome \in {RowRecord(s_variant, ExecutiveTables(s_page)[s_ti].rows[s_ri])} :
           Collect(outcome, "after")
    /\ UNCHANGED <<s_variant, s_limit, s_page, s_ti,
                   urlVars, fetchVars, dateVars, nameVars, pageVars, siteVars, runVars>>

\* for item in executive_items
ScrapeItem ==
    /\ s_pc = "items"
    /\ s_ri <= Len(ExecutiveItems(ExecutiveTables(s_page)[s_ti]))
    /\ \E outcome \in {ItemRecord(s_variant,
                                 ExecutiveItems(ExecutiveTables(s_page)[s_ti])[s_ri])} :
           Collect(outcome, "after")
    /\ UNCHANGED <<s_variant, s_limit, s_page, s_ti,
                   urlVars, fetchVars, dateVars, nameVars, pageVars, siteVars, runVars>>

\* the rows or items of a container are used up:
\* if exec_count >= limit: break, else the next container
ScrapeContainerDone ==
    /\ \/ s_pc = "rows" /\ s_ri > Len(ExecutiveTables(s_page)[s_ti].rows)
       \/ s_pc = "items" /\ s_ri > Len(ExecutiveItems(ExecutiveTables(s_page)[s_ti]))
    /\ IF exec_count >= s_limit
       THEN s_pc' = "after" /\ UNCHANGED s_ti
       ELSE s_pc' = "container" /\ s_ti' = s_ti + 1
    /\ UNCHANGED <<s_variant, s_limit, s_page, s_ri, executives, exec_count,
                   urlVars, fetchVars, dateVars, nameVars, pageVars, siteVars, runVars>>

\* root variant with records: return executives
ScrapeReturn ==
    /\ s_pc = "after" /\ s_variant = "root" /\ Len(executives) > 0
    /\ s_pc' = "done"
    /\ UNCHANGED <<s_variant, s_limit, s_page, s_ti, s_ri, executives, exec_count,
                   urlVars, fetchVars, dateVars, nameVars, pageVars, siteVars, runVars>>

\* pkg variant with records: the image pass over executives, then return
ScrapeImages(outcome) ==
    /\ s_pc = "after" /\ s_variant = "pkg" /\ Len(executives) > 0
    /\ executives' = [i \in 1..Len(executives) |-> WithImage(executives[i], outcome)]
    /\ s_pc' = "done"
    /\ UNCHANGED <<s_variant, s_limit, s_page, s_ti, s_ri, exec_count,
                   urlVars, fetchVars, dateVars, nameVars, pageVars, siteVars, runVars>>

\* len(executives) == 0 and self.driver: find_elements answers (the
\* elements of the page) or raises (caught: return executives); the slice
\* exec_elements[:limit] of the for statement raises TypeError for a limit
\* that is a float (caught by the same except: return executives)
ScrapeFallbackBegin(found) ==
    /\ s_pc = "after" /\ Len(executives) = 0
    /\ IF found /\ s_limit # Infinity THEN s_pc' = "fallback" /\ s_ri' = 1
       ELSE s_pc' = "done" /\ UNCHANGED s_ri
    /\ UNCHANGED <<s_variant, s_limit, s_page, s_ti, executives, exec_count,
                   urlVars, fetchVars, dateVars, nameVars, pageVars, siteVars, runVars>>

\* for element in exec_elements[:limit]
ScrapeElement ==
    /\ s_pc = "fallback"
    /\ s_ri <= Len(Take(s_page.live, s_limit))
    /\ \E outcome \in {ElementRecord(s_variant, s_page.live[s_ri])} :
           Collect(outcome, "done")
    /\ UNCHANGED <<s_variant, s_limit, s_page, s_ti,
                   urlVars, fetchVars, dateVars, nameVars, pageVars, siteVars, runVars>>

\* the elements are used up: return executives
ScrapeFallbackDone ==
    /\ s_pc = "fallback"
    /\ s_ri > Len(Take(s_page.live, s_limit))
    /\ s_pc' = "done"
    /\ UNCHANGED <<s_variant, s_limit, s_page, s_ti, s_ri, executives, exec_count,
                   urlVars, fetchVars, dateVars, nameVars, pageVars, siteVars, runVars>>

-----------------------------------------------------------------------------
(* WebScraper.extract_date, clean_content, fetch_article_content and
   parse_page (src/main.py).

   A date is [year, month, day]; NoDay is "no date".  An element handed to
   extract_date is its three attributes datetime, data-date, content ("" when
   absent) and its text.  parser.parse (dateutil) reads yyyy-mm-dd as year,
   month, day and nn/nn/yyyy month first unless the first number exceeds 12,
   and raises on a date the calendar does not have.  The third pattern of
   date_patterns matches a text with a Thai letter, which parser.parse
   rejects: its except continues, as when nothing matched.

   The html handed to parse_page is NoHtml (None or "") or the elements of
   the page that match one of article_selectors, in document order.  An
   element that may be missing is a sequence of no or one element.  An
   article element is
     sel    the selectors of article_selectors it matches
     title  the first element a title selector finds (its text and href)
     date   the first element a date selector finds
     body   what the article's own page gives fetch_article_content: the
            text of its content parts, None (fetch_html returned None), or
            Throws (an exception leaves fetch_article_content) *)

NoDay == [year |-> 0, month |-> 0, day |-> 0]

Throws == <<"Throws">>   \* in place of a value: an exception was raised

NoHtml == [empty |-> TRUE, elements |-> <<>>]
Html(elements) == [empty |-> FALSE, elements |-> elements]

IsLeap(y) == (y % 4 = 0 /\ y % 100 # 0) \/ y % 400 = 0

DaysInMonth(y, m) ==
    IF m = 2 THEN (IF IsLeap(y) THEN 29 ELSE 28)
    ELSE IF m \in {4, 6, 9, 11} THEN 30 ELSE 31

\* datetime(year, month, day) exists
ValidDay(dt) ==
    /\ dt.year \in 1..9999
    /\ dt.month \in 1..12
    /\ dt.day \in 1..DaysInMonth(dt.year, dt.month)

\* \d{2}/\d{2}/\d{4} at the very start of s
IsSlashShape(s) ==
    /\ Len(s) = 10
    /\ AllDigits(SubSeq(s, 1, 2)) /\ s[3] = "/"
    /\ AllDigits(SubSeq(s, 4, 5)) /\ s[6] = "/"
    /\ AllDigits(SubSeq(s, 7, 10))

\* re.search(pattern, s).group(0) for the first (k = 1) and the second
\* (k = 2) pattern: the leftmost match, <<>> when there is none
DateMatch(k, s) ==
    LET hits == {i \in 1..(Len(s) - 9) :
                    IF k = 1 THEN IsDateShape(SubSeq(s, i, i + 9))
                    ELSE IsSlashShape(SubSeq(s, i, i + 9))}
    IN  IF hits = {} THEN <<>>
        ELSE SubSeq(s, CHOOSE i \in hits : \A j \in hits : i <= j,
                       (CHOOSE i \in hits : \A j \in hits : i <= j) + 9)

\* parser.parse of a yyyy-mm-dd match
ParseIso(t) ==
    [year |-> NatVal(SubSeq(t, 1, 4)), month |-> NatVal(SubSeq(t, 6, 7)),
     day |-> NatVal(SubSeq(t, 9, 10))]

\* parser.parse of an nn/nn/yyyy match
ParseSlash(t) ==
    IF NatVal(SubSeq(t, 1, 2)) > 12
    THEN [year |-> NatVal(SubSeq(t, 7, 10)), month |-> NatVal(SubSeq(t, 4, 5)),
          day |-> NatVal(SubSeq(t, 1, 2))]
    ELSE [year |-> NatVal(SubSeq(t, 7, 10)), month |-> NatVal(SubSeq(t, 1, 2)),
          day |-> NatVal(SubSeq(t, 4, 5))]

\* parser.parse(match.group(0)) for pattern k on the string s; NoDay when
\* the pattern does not match
ParsedMatch(k, t) ==
    IF t = <<>> THEN NoDay ELSE IF k = 1 THEN ParseIso(t) ELSE ParseSlash(t)

\* .strftime("%Y-%m-%d"): the year is not padded
Strftime(dt) ==
    PyStr(dt.year) \o <<"-">> \o ZFill2(PyStr(dt.month)) \o <<"-">>
        \o ZFill2(PyStr(dt.day))

\* the strings the loops look at, in their order: for each pattern the
\* attributes datetime, data-date, content and then the text
DateTries(element) ==
    [n \in 1..8 |->
        ParsedMatch(((n - 1) \div 4) + 1,
                    DateMatch(((n - 1) \div 4) + 1,
                              (element.attrs \o <<element.text>>)[((n - 1) % 4) + 1]))]

FirstGood(tries) ==
    LET good == {n \in DOMAIN tries : ValidDay(tries[n])}
    IN  IF good = {} THEN NoDay
        ELSE tries[CHOOSE n \in good : \A m \in good : n <= m]

\* WebScraper.extract_date: the first match that parses, else today's date
WebScraper_extract_date(element, today) ==
    IF Len(element) = 0 THEN Strftime(today)
    ELSE IF FirstGood(DateTries(element[1])) = NoDay THEN Strftime(today)
    ELSE Strftime(FirstGood(DateTries(element[1])))

\* re.sub(r'\s+', ' ', text)
RECURSIVE CollapseSpace(_)
CollapseSpace(s) ==
    IF s = <<>> THEN <<>>
    ELSE IF Head(s) \in Whitespace
    THEN <<SP>> \o CollapseSpace(LStrip(s))
    ELSE <<Head(s)>> \o CollapseSpace(Tail(s))

clean_content(text) ==
    IF text = None \/ text = <<>> THEN <<>> ELSE Strip(CollapseSpace(text))

CannotFetchText == <<"CANNOT_FETCH">>   \* the text returned when fetch_html gave None
NotFoundText == <<"NOT_FOUND">>         \* the text returned when no content was found

fetch_article_content(body) ==
    IF body = None THEN CannotFetchText
    ELSE IF clean_content(body) = <<>> THEN NotFoundText
    ELSE clean_content(body)

article_selectors ==
    <<"article", ".post", ".blog-post", ".news-item", ".item", ".entry", ".card">>

\* soup.select(selector)
RECURSIVE Select(_, _)
Select(html, selector) ==
    IF html = <<>> THEN <<>>
    ELSE (IF selector \in Head(html).sel THEN <<Head(html)>> ELSE <<>>)
            \o Select(Tail(html), selector)

\* the body of the try block for one article: no title element or no
\* valid link skips it, an exception is caught, else a record is appended
LinkedArticle(article, link, today) ==
    IF link = None THEN Skip
    ELSE IF article.body = Throws THEN Raise
    ELSE Emit([Headline |-> article.title[1].text,
               Link |-> link,
               Date |-> WebScraper_extract_date(article.date, today),
               Content |-> fetch_article_content(article.body)])

ArticleRecord(article, today) ==
    IF Len(article.title) = 0 THEN Skip
    ELSE LinkedArticle(article, clean_url(article.title[1].href), today)

\* what an outcome adds to the list
Appended(outcome) == IF outcome.kind = "record" THEN <<outcome.rec>> ELSE <<>>

\* the records of the articles of one selector, in order
RECURSIVE ArticleRecords(_, _)
ArticleRecords(found, today) ==
    IF found = <<>> THEN <<>>
    ELSE Appended(ArticleRecord(Head(found), today))
            \o ArticleRecords(Tail(found), today)

\* the records of selectors k.. in order
RECURSIVE RecordsFrom(_, _, _)
RecordsFrom(html, today, k) ==
    IF k > Len(article_selectors) THEN <<>>
    ELSE ArticleRecords(Select(html, article_selectors[k]), today)
            \o RecordsFrom(html, today, k + 1)

\* WebScraper.parse_page as a function of the page
parse_page(html, today) ==
    IF html.empty THEN <<>> ELSE RecordsFrom(html.elements, today, 1)

\* entry of parse_page: if not html: return []
ParseBegin ==
    /\ p_pc = "start"
    /\ IF p_html.empty
       THEN p_pc' = "done" /\ UNCHANGED <<p_si, p_ai>>
       ELSE p_pc' = "select" /\ p_si' = 1 /\ p_ai' = 1
    /\ articles' = <<>>
    /\ UNCHANGED <<p_html, p_today, urlVars, fetchVars, dateVars, nameVars,
                   scrapeVars, siteVars, runVars>>

\* the article loop with the try block around the loop instead of inside it
ParseArticleAborting ==
    /\ p_pc = "select" /\ p_si <= Len(article_selectors)
    /\ p_ai <= Len(Select(p_html.elements, article_selectors[p_si]))
    /\ \E outcome \in {ArticleRecord(Select(p_html.elements, article_selectors[p_si])[p_ai],
                                     p_today)} :
           IF outcome.kind = "raise"
           THEN p_pc' = "done" /\ articles' = <<>> /\ UNCHANGED p_ai
           ELSE /\ articles' = articles \o Appended(outcome)
                /\ p_ai' = p_ai + 1 /\ UNCHANGED p_pc
    /\ UNCHANGED <<p_html, p_today, p_si, urlVars, fetchVars, dateVars,
                   nameVars, scrapeVars, siteVars, runVars>>

\* for article in soup.select(selector): one article
ParseArticle ==
    /\ p_pc = "select" /\ p_si <= Len(article_selectors)
    /\ p_ai <= Len(Select(p_html.elements, article_selectors[p_si]))
    /\ \E outcome \in {ArticleRecord(Select(p_html.elements, article_selectors[p_si])[p_ai],
                                     p_today)} :
           articles' = articles \o Appended(outcome)
    /\ p_ai' = p_ai + 1
    /\ UNCHANGED <<p_pc, p_html, p_today, p_si, urlVars, fetchVars, dateVars,
                   nameVars, scrapeVars, siteVars, runVars>>

\* for selector in article_selectors: the next selector
ParseNextSelector ==
    /\ p_pc = "select" /\ p_si <= Len(article_selectors)
    /\ p_ai > Len(Select(p_html.elements, article_selectors[p_si]))
    /\ p_si' = p_si + 1 /\ p_ai' = 1
    /\ UNCHANGED <<p_pc, p_html, p_today, articles, urlVars, fetchVars, dateVars,
                   nameVars, scrapeVars, siteVars, runVars>>

\* return articles
ParseReturn ==
    /\ p_pc = "select" /\ p_si > Len(article_selectors)
    /\ p_pc' = "done"
    /\ UNCHANGED <<p_html, p_today, p_si, p_ai, articles, urlVars, fetchVars,
                   dateVars, nameVars, scrapeVars, siteVars, runVars>>

-----------------------------------------------------------------------------
(* WebScraper.scrape_website of src/main.py.

   fetch_html is taken by what it hands back for the page: an html (NoHtml:
   None after its attempts are used up), or an exception other than a
   RequestException, which it does not catch.  parse_page is the function
   above; the page is given as what its selectors find.  w_now is
   datetime.now() of line 410, a day and the seconds since its midnight.
   w_log lists the calls in their order, each with the page it was made
   for and how it ended ("ok", "none": no html, "raise": an exception). *)

Call(call, page, result) == [call |-> call, page |-> page, result |-> result]

CutoffDays == 30        \* timedelta(days=30)
DaySeconds == 86400

\* date.toordinal()
DaysBeforeYear(y) == (y - 1) * 365 + (y - 1) \div 4 - (y - 1) \div 100 + (y - 1) \div 400

RECURSIVE DaysBeforeMonth(_, _)
DaysBeforeMonth(y, m) ==
    IF m = 1 THEN 0 ELSE DaysBeforeMonth(y, m - 1) + DaysInMonth(y, m - 1)

Ordinal(dt) == DaysBeforeYear(dt.year) + DaysBeforeMonth(dt.year, dt.month) + dt.day

StrptimeParts(y, m, d) ==
    IF /\ Len(m) \in 1..2 /\ AllDigits(m) /\ Len(d) \in 1..2 /\ AllDigits(d)
       /\ ValidDay([year |-> NatVal(y), month |-> NatVal(m), day |-> NatVal(d)])
    THEN [year |-> NatVal(y), month |-> NatVal(m), day |-> NatVal(d)]
    ELSE NoDay

\* datetime.strptime(s, "%Y-%m-%d"): four digits, "-", one or two digits,
\* "-", one or two digits, and the day exists; NoDay: ValueError
Strptime(s) ==
    IF \/ Len(s) < 8 \/ ~AllDigits(SubSeq(s, 1, 4)) \/ s[5] # "-"
       \/ ~Contains(Drop(s, 5), <<"-">>)
    THEN NoDay
    ELSE StrptimeParts(SubSeq(s, 1, 4), BeforeSub(Drop(s, 5), <<"-">>),
                       AfterSub(Drop(s, 5), <<"-">>))

\* article_date > one_month_ago, in seconds counted from the midnight that
\* starts the day CutoffDays before now (days first: 32-bit arithmetic)
DaysPastCutoff(day, now) == Ordinal(day) - (Ordinal(now.date) - CutoffDays)

LaterThanCutoff(day, now) ==
    IF DaysPastCutoff(day, now) \in 0..1
    THEN DaysPastCutoff(day, now) * DaySeconds > now.seconds
    ELSE DaysPastCutoff(day, now) > 1      \* now.seconds is less than a day

\* the filter without the except branch's append
KeepsParsedOnly(article, now) ==
    IF Strptime(article.Date) = NoDay THEN FALSE
    ELSE LaterThanCutoff(Strptime(article.Date), now)

\* the inner try block of the filter: an article whose date does not parse
\* is appended by the except branch
KeepsArticle(article, now) ==
    IF Strptime(article.Date) = NoDay THEN TRUE
    ELSE LaterThanCutoff(Strptime(article.Date), now)

RECURSIVE Filtered(_, _)
Filtered(found, now) ==
    IF found = <<>> THEN <<>>
    ELSE (IF KeepsArticle(Head(found), now) THEN <<Head(found)>> ELSE <<>>)
            \o Filtered(Tail(found), now)

\* all_articles = []; one_month_ago = ...; the loop starts at page 1
SiteBegin ==
    /\ w_pc = "start"
    /\ w_pc' = "page" /\ w_page' = 1 /\ all_articles' = <<>> /\ w_log' = <<>>
    /\ UNCHANGED <<w_num_pages, w_now, w_html, urlVars, fetchVars, dateVars,
                   nameVars, scrapeVars, pageVars, runVars>>

\* the page loop without the outer try block: an exception ends the run
SiteFetchFatal(raises, html) ==
    /\ w_pc = "page" /\ w_page <= w_num_pages
    /\ w_log' = Append(w_log, Call("fetch", w_page,
                                   IF raises THEN "raise"
                                   ELSE IF html.empty THEN "none" ELSE "ok"))
    /\ IF raises
       THEN w_pc' = "done" /\ UNCHANGED <<w_page, w_html>>
       ELSE IF html.empty
       THEN w_page' = w_page + 1 /\ UNCHANGED <<w_pc, w_html>>
       ELSE w_pc' = "parse" /\ w_html' = html /\ UNCHANGED w_page
    /\ UNCHANGED <<w_num_pages, w_now, all_articles, urlVars, fetchVars,
                   dateVars, nameVars, scrapeVars, pageVars, runVars>>

\* html = self.fetch_html(page_url): an exception is caught by the outer
\* except, no html is skipped by continue; both go on with the next page
SiteFetch(raises, html) ==
    /\ w_pc = "page" /\ w_page <= w_num_pages
    /\ w_log' = Append(w_log, Call("fetch", w_page,
                                   IF raises THEN "raise"
                                   ELSE IF html.empty THEN "none" ELSE "ok"))
    /\ IF raises \/ html.empty
       THEN w_page' = w_page + 1 /\ UNCHANGED <<w_pc, w_html>>
       ELSE w_pc' = "parse" /\ w_html' = html /\ UNCHANGED w_page
    /\ UNCHANGED <<w_num_pages, w_now, all_articles, urlVars, fetchVars,
                   dateVars, nameVars, scrapeVars, pageVars, runVars>>

\* the page loop when an exception of parse_page leaves scrape_website
SiteExtractEscaping(ok) ==
    /\ w_pc = "parse"
    /\ w_log' = Append(w_log, Call("extract", w_page, IF ok THEN "ok" ELSE "raise"))
    /\ IF ok
       THEN \E filtered_articles \in {Filtered(parse_page(w_html, w_now.date), w_now)} :
                all_articles' = all_articles \o filtered_articles
       ELSE all_articles' = all_articles
    /\ IF ok THEN w_pc' = "page" /\ w_page' = w_page + 1
       ELSE w_pc' = "raised" /\ UNCHANGED w_page
    /\ UNCHANGED <<w_num_pages, w_now, w_html, urlVars, fetchVars, dateVars, nameVars,
                   scrapeVars, pageVars, runVars>>

\* articles = self.parse_page(html), the filter and all_articles.extend
\* (ok), or an exception on the way, which the outer except catches
SiteExtract(ok) ==
    /\ w_pc = "parse"
    /\ w_log' = Append(w_log, Call("extract", w_page, IF ok THEN "ok" ELSE "raise"))
    /\ IF ok
       THEN \E filtered_articles \in {Filtered(parse_page(w_html, w_now.date), w_now)} :
                all_articles' = all_articles \o filtered_articles
       ELSE all_articles' = all_articles
    /\ w_pc' = "page" /\ w_page' = w_page + 1
    /\ UNCHANGED <<w_num_pages, w_now, w_html, urlVars, fetchVars, dateVars, nameVars,
                   scrapeVars, pageVars, runVars>>

\* return all_articles
SiteReturn ==
    /\ w_pc = "page" /\ w_page > w_num_pages
    /\ w_pc' = "done"
    /\ UNCHANGED <<w_num_pages, w_now, w_page, w_html, w_log, all_articles,
                   urlVars, fetchVars, dateVars, nameVars, scrapeVars, pageVars, runVars>>

-----------------------------------------------------------------------------
(* Variables a specification does not use keep these values *)

IdleUrl ==
    /\ url_pc = "idle" /\ url_in = None /\ url_out = None /\ url_again = None
    /\ url_base = base_url

IdleFetch ==
    /\ f_fn = "none" /\ f_url = None /\ f_retries = 0 /\ f_delay = 0
    /\ f_driver = FALSE /\ f_pc = "idle" /\ f_attempt = 0
    /\ f_outcomes = <<>> /\ f_paces = <<>> /\ f_backoffs = <<>>
    /\ f_result = <<"pending">>

NoParts == [day |-> <<>>, month |-> 0, year |-> <<>>]

IdleDate ==
    /\ d_pc = "idle" /\ d_variant = "none" /\ d_kind = "none"
    /\ d_parts = NoParts /\ d_text = None /\ d_out = None

NoParse == [raised |-> FALSE, first_name |-> <<>>, surname |-> <<>>]
NoPrefix == [prefix |-> "", prefixed_name |-> <<>>, clean_name |-> <<>>]

IdleName ==
    /\ n_pc = "idle" /\ n_variant = "none" /\ n_title = <<>> /\ n_tokens = <<>>
    /\ n_name = None /\ n_parse = NoParse /\ n_prefix = NoPrefix

NoPage == [primary |-> <<>>, alt |-> <<>>, live |-> <<>>]

IdleScrape ==
    /\ s_pc = "idle" /\ s_variant = "none" /\ s_limit = 0 /\ s_page = NoPage
    /\ s_ti = 0 /\ s_ri = 0 /\ executives = <<>> /\ exec_count = 0

IdlePage ==
    /\ p_pc = "idle" /\ p_html = NoHtml /\ p_today = NoDay
    /\ p_si = 0 /\ p_ai = 0 /\ articles = <<>>

IdleSite ==
    /\ w_pc = "idle" /\ w_num_pages = 0 /\ w_now = [date |-> NoDay, seconds |-> 0]
    /\ w_page = 0 /\ w_html = NoHtml /\ w_log = <<>> /\ all_articles = <<>>

IdleRun ==
    /\ r_prog = "main" /\ r_pc = "idle" /\ r_scraper = FALSE /\ r_driver = "none"
    /\ r_sessions = <<>> /\ r_data = FALSE /\ r_log = <<>>

-----------------------------------------------------------------------------
(* Specification of the url normaliser: one call, then the result fed back *)

InitUrl == IdleUrl /\ IdleFetch /\ IdleDate /\ IdleName /\ IdleScrape /\ IdlePage /\ IdleSite /\ IdleRun

CleanUrlCall ==
    /\ url_pc = "idle"
    /\ \E b \in BaseUrls, u \in RawUrls :
         /\ url_base' = b
         /\ url_in' = u
         /\ url_out' = WebScraper_clean_url(b, u)
    /\ url_pc' = "once"
    /\ UNCHANGED <<url_again, fetchVars, dateVars, nameVars, scrapeVars, pageVars, siteVars, runVars>>

CleanUrlAgain ==
    /\ url_pc = "once" /\ url_out # None
    /\ url_again' = WebScraper_clean_url(url_base, url_out)
    /\ url_pc' = "twice"
    /\ UNCHANGED <<url_in, url_out, url_base, fetchVars, dateVars, nameVars, scrapeVars, pageVars, siteVars, runVars>>

NextUrl == CleanUrlCall \/ CleanUrlAgain

SpecUrl == InitUrl /\ [][NextUrl]_vars

\* urlparse(url).hostname: netloc without the userinfo and the port
HostOf(url) ==
    LET n  == Netloc(url)
        at == {i \in 1..Len(n) : n[i] = "@"}
        h  == IF at = {} THEN n
              ELSE Drop(n, CHOOSE i \in at : \A j \in at : j <= i)
        c  == IndexOf(h, ":")
    IN  IF c = 0 THEN h ELSE SubSeq(h, 1, c - 1)

\* the host is the target domain or one of its subdomains
OnTargetDomain(host) ==
    host = TargetDomain \/ EndsWith(host, <<".">> \o TargetDomain)

\* C2: clean_url returns None for every url whose host is not the target
\* domain: each url it returns has a host on innwhy.com
C2_ForeignHostRejected ==
    url_pc # "idle" /\ url_out # None => OnTargetDomain(HostOf(url_out))

\* C3: clean_url is idempotent: clean_url(clean_url(u)) = clean_url(u)
\* whenever clean_url(u) is a url
C3_Idempotent ==
    url_pc = "twice" => url_again = url_out

-----------------------------------------------------------------------------
(* Specification of one fetch: any function, url, retries and delay *)

InitFetch ==
    /\ IdleUrl /\ IdleDate /\ IdleName /\ IdleScrape /\ IdlePage /\ IdleSite /\ IdleRun
    /\ f_fn \in {"fetch_html", "fetch_page"}
    /\ f_url \in FetchUrls
    /\ f_retries \in 0..MaxRetries
    /\ f_delay \in 0..MaxDelay
    /\ f_driver \in BOOLEAN
    /\ (f_fn = "fetch_page" => f_delay = 0 /\ f_url = base_url)
    /\ (f_fn = "fetch_html" => f_driver = FALSE)
    /\ f_pc = "start" /\ f_attempt = 0
    /\ f_outcomes = <<>> /\ f_paces = <<>> /\ f_backoffs = <<>>
    /\ f_result = <<"pending">>

NextFetch ==
    FetchBegin \/ FetchPace \/ FetchExhausted \/ FetchRequest \/ FetchBackoff

SpecFetch == InitFetch /\ [][NextFetch]_vars

StrictlyIncreasing(q) == \A i, j \in 1..Len(q) : i < j => q[i] < q[j]

\* the fetch got as far as its loop and every attempt it made failed
AllAttemptsFailed ==
    /\ f_pc = "done" /\ f_paces # <<>>
    /\ \A i \in 1..Len(f_outcomes) : ~AttemptSucceeds(f_fn, f_outcomes[i])

\* C1: a fetch whose every attempt fails issues exactly `retries` requests
\* (3 for retries = 3), sleeps retries - 1 backoffs, the second longer than
\* the first, and returns None; the backoff sleeps of any fetch are strictly
\* increasing (for fetch_html: for every positive delay)
C1_RetryBackoff ==
    /\ AllAttemptsFailed =>
         /\ Len(f_outcomes) = f_retries
         /\ Len(f_backoffs) = f_retries - 1
         /\ f_result = None
    /\ (f_fn = "fetch_page" \/ f_delay > 0) => StrictlyIncreasing(f_backoffs)

C1_Witness ==
    /\ AllAttemptsFailed /\ f_retries = 3 /\ Len(f_outcomes) = 3
    /\ Len(f_backoffs) = 2 /\ f_backoffs[1] < f_backoffs[2]

-----------------------------------------------------------------------------
(* Specification of the date normaliser: one call on a text written from a
   day, a month and a year in one of the three formats, with or without
   text around the date, or on a text that holds no date *)

DateDays == { <<"1">>, <<"0", "1">>, <<"1", "5">> }
DateMonths == { 1, 4, 12 }
DateYears == { <<"0","5","4","3">>, <<"1","9","5","8">>, <<"2","0","2","1">>,
               <<"2","4","9","9">>, <<"2","5","0","0">>, <<"2","5","0","1">>,
               <<"2","5","6","4">>, <<"9","9","9","9">> }
DateLeads == { <<>>, <<"s","i","n","c","e",SP>> }
DateTrails == { <<>>, <<SP, "-">>, <<SP, "n","o","w">> }

\* the month of a numeric date, written without and with the leading zero
MonthDigits(k) == { PyStr(k), ZFill2(PyStr(k)) }

WrittenDates(kind, p) ==
    IF kind = "thai"
    THEN { p.day \o <<SP, th_months[p.month], SP>> \o p.year }
    ELSE IF kind = "dmy"
    THEN { p.day \o <<"/">> \o m \o <<"/">> \o p.year : m \in MonthDigits(p.month) }
    ELSE { p.year \o <<"-">> \o m \o <<"-">> \o p.day : m \in MonthDigits(p.month) }

OtherDateTexts ==
    { None, <<>>, <<"-">>, <<"n","/","a">>,
      <<"1", SP, "M04">>, <<"M04", SP, "2","5","6","4">>,
      <<"1", SP, "M04", SP, "a","b","c","d">>,
      <<"1", SP, "M04", SP, "2","5","6","4",",">>,
      <<"1","/","4","/","2","5">>, <<"1","M04","2","5","6","4">>,
      <<"x","y", SP, "M04", SP, "2","5","6","4">>,
      <<"1","2","3", SP, "M04", SP, "2","5","6","4">>,
      <<"5","/","1","3","/","2","0","2","2">>,
      <<"2","0","2","2","-","0","0","-","0","7">>,
      <<"1", SP, "M04", SP, "2","5","6","x">> }

InitDate ==
    IdleUrl /\ IdleFetch /\ IdleDate /\ IdleName /\ IdleScrape /\ IdlePage /\ IdleSite /\ IdleRun

ExtractDateWritten ==
    /\ d_pc = "idle"
    /\ \E v \in {"root", "pkg"}, k \in {"thai", "dmy", "ymd"},
          day \in DateDays, mon \in DateMonths, yr \in DateYears,
          lead \in DateLeads, trail \in DateTrails :
         LET p == [day |-> day, month |-> mon, year |-> yr]
         IN  \E w \in WrittenDates(k, p) :
               /\ d_variant' = v /\ d_kind' = k /\ d_parts' = p
               /\ d_text' = lead \o w \o trail
               /\ d_out' = extract_date(v, lead \o w \o trail)
    /\ d_pc' = "done"
    /\ UNCHANGED <<urlVars, fetchVars, nameVars, scrapeVars, pageVars, siteVars, runVars>>

ExtractDateOther ==
    /\ d_pc = "idle"
    /\ \E v \in {"root", "pkg"}, t \in OtherDateTexts :
         /\ d_variant' = v /\ d_kind' = "other" /\ d_parts' = NoParts
         /\ d_text' = t
         /\ d_out' = extract_date(v, t)
    /\ d_pc' = "done"
    /\ UNCHANGED <<urlVars, fetchVars, nameVars, scrapeVars, pageVars, siteVars, runVars>>

NextDate == ExtractDateWritten \/ ExtractDateOther

SpecDate == InitDate /\ [][NextDate]_vars

\* the year the claim expects for a written 4-digit year
ExpectedYear(year) ==
    IF year = <<"2","5","0","1">> THEN <<"1","9","5","8">>
    ELSE IF year = <<"2","5","6","4">> THEN <<"2","0","2","1">>
    ELSE IF year = <<"9","9","9","9">> THEN <<"9","4","5","6">>
    ELSE year

TwoDigits(s) == IF Len(s) = 1 THEN <<"0">> \o s ELSE s

\* C4: in each of the three formats a 4-digit year y is emitted as y - 543
\* when y > 2500 and unchanged when y <= 2500 (2500 stays, 2501 gives 1958),
\* next to the two-digit day and month, in the order of the variant
C4_BuddhistEra ==
    d_pc = "done" /\ d_kind \in {"thai", "dmy", "ymd"} =>
        LET dd == TwoDigits(d_parts.day)
            mm == TwoDigits(PyStr(d_parts.month))
            yy == ExpectedYear(d_parts.year)
        IN  d_out = IF d_variant = "root"
                    THEN dd \o <<"-">> \o mm \o <<"-">> \o yy
                    ELSE yy \o <<"-">> \o mm \o <<"-">> \o dd

\* day 1, month 4 (M04), year 2564 in the Thai format gives 2021-04-01
C4_Witness ==
    /\ d_pc = "done" /\ d_kind = "thai" /\ d_variant = "pkg"
    /\ d_text = <<"1", SP, "M04", SP, "2","5","6","4">>
    /\ d_out = <<"2","0","2","1","-","0","4","-","0","1">>

-----------------------------------------------------------------------------
(* Specification of the name functions: a name is written from a title (or
   none), a gap and up to MaxNameTokens words, and handed to parse_name and
   to the prefix function of one variant *)

MaxNameTokens == 3

Banthun == <<"BO", "HAN", "NEN", "THO", "UU", "RO">>
Lamsam  == <<"LO", "EK", "AM", "SSO", "AM">>
Sawitri == <<"SO", "AA", "WO", "SI", "TO", "RO", "SII">>

NameWords == {Banthun, Lamsam, Sawitri}
NameTitles == {parse_titles_root[i] : i \in 1..Len(parse_titles_root)} \cup {<<>>}
NameGaps == {<<>>, <<SP>>}
NameSeps == {<<SP>>, <<SP, SP>>}
NameLeads == {<<>>, <<SP>>}

TokenSeqs == UNION {[1..n -> NameWords] : n \in 0..MaxNameTokens}

RECURSIVE JoinWith(_, _)
JoinWith(parts, sep) ==
    IF parts = <<>> THEN <<>>
    ELSE IF Len(parts) = 1 THEN parts[1]
    ELSE parts[1] \o sep \o JoinWith(Tail(parts), sep)

\* what one variant does with a full name (the two calls scrape_executives
\* makes for every name)
NameResults(v, name) ==
    /\ n_name' = name
    /\ n_parse' = parse_name(v, name)
    /\ n_prefix' = IF v = "root"
                   THEN [NoPrefix EXCEPT !.prefix = extract_prefix(name)]
                   ELSE add_prefix(name)

InitName == IdleUrl /\ IdleFetch /\ IdleDate /\ IdleName /\ IdleScrape /\ IdlePage /\ IdleSite /\ IdleRun

NameCall ==
    /\ n_pc = "idle"
    /\ \E v \in {"root", "pkg"}, t \in NameTitles, g \in NameGaps,
          ws \in TokenSeqs, sep \in NameSeps, lead \in NameLeads :
         /\ n_variant' = v /\ n_title' = t /\ n_tokens' = ws
         /\ NameResults(v, lead \o t \o g \o JoinWith(ws, sep) \o lead)
    /\ n_pc' = "done"
    /\ UNCHANGED <<urlVars, fetchVars, dateVars, scrapeVars, pageVars, siteVars, runVars>>

NameCallMissing ==
    /\ n_pc = "idle"
    /\ \E v \in {"root", "pkg"} :
         /\ n_variant' = v /\ n_title' = <<>> /\ n_tokens' = <<>>
         /\ NameResults(v, None)
    /\ n_pc' = "done"
    /\ UNCHANGED <<urlVars, fetchVars, dateVars, scrapeVars, pageVars, siteVars, runVars>>

NextName == NameCall \/ NameCallMissing

SpecName == InitName /\ [][NextName]_vars

\* the function of a variant that splits a name / that derives the prefix
ParseFn(v) == IF v = "root" THEN "parse_name_root" ELSE "parse_name_pkg"
PrefixFn(v) == IF v = "root" THEN "extract_prefix" ELSE "add_prefix"

\* the titles a function recognises, and the prefix its table gives a title
Recognised(fn) ==
    LET q == IF fn = "extract_prefix" THEN Keys(prefix_titles_root)
             ELSE IF fn = "parse_name_root" THEN parse_titles_root
             ELSE thai_titles
    IN  {q[i] : i \in 1..Len(q)}

PrefixTable(fn) ==
    IF fn = "extract_prefix" THEN prefix_titles_root ELSE thai_to_eng_prefixes

\* the longest title of a function's lexicon that the name starts with
LongestRecognised(fn, name) ==
    LET hits == {t \in Recognised(fn) : StartsWith(name, t)}
    IN  IF hits = {} THEN <<>>
        ELSE CHOOSE t \in hits : \A u \in hits : Len(u) <= Len(t)

HasShorterTitle(fn, t) ==
    \E u \in Recognised(fn) : u # t /\ StartsWith(t, u)

\* C5: a name that starts with a title t2 which has a shorter recognised
\* title t1 as a proper prefix gets t2 removed in full (its first name is
\* the first word after t2) and the prefix that belongs to t2, in the
\* splitter and the prefix function of both variants
C5_LongestTitleFirst ==
    n_pc = "done" /\ n_name # None /\ n_tokens # <<>> /\ n_title # <<>> =>
        LET name == Strip(n_name)
        IN  /\ ( /\ LongestRecognised(ParseFn(n_variant), name) = n_title
                 /\ HasShorterTitle(ParseFn(n_variant), n_title) )
               => /\ ~n_parse.raised
                  /\ n_parse.first_name = n_tokens[1]
            /\ ( /\ LongestRecognised(PrefixFn(n_variant), name) = n_title
                 /\ HasShorterTitle(PrefixFn(n_variant), n_title) )
               => n_prefix.prefix = Lookup(PrefixTable(PrefixFn(n_variant)), n_title)

\* C6: with the matched title (if any) taken off, one word gives
\* (first = word, surname = ""), two or more give (first = the first word,
\* surname = the other words joined by one space); TNai Banthun Lamsam gives
\* prefix Mr or Mr., first Banthun, surname Lamsam
C6_SplitFirstRest ==
    /\ ( /\ n_pc = "done" /\ n_name # None /\ n_tokens # <<>>
         /\ MatchedTitle(ParseFn(n_variant), Strip(n_name)) = n_title )
       => /\ ~n_parse.raised
          /\ n_parse.first_name = n_tokens[1]
          /\ n_parse.surname = JoinWith(Tail(n_tokens), <<SP>>)
    /\ n_pc = "done" /\ n_name = TNai \o Banthun \o <<SP>> \o Lamsam
       => /\ n_prefix.prefix \in {"Mr", "Mr."}
          /\ n_parse.first_name = Banthun /\ n_parse.surname = Lamsam

C6_Witness ==
    /\ n_pc = "done" /\ n_variant = "root"
    /\ n_name = TNai \o Banthun \o <<SP>> \o Lamsam
    /\ n_prefix.prefix = "Mr"
    /\ n_parse = [raised |-> FALSE, first_name |-> Banthun, surname |-> Lamsam]

\* C7: parse_name and the prefix functions never raise, and give empty
\* outputs for an empty or missing name
C7_NeverRaises ==
    n_pc = "done" =>
        /\ ~n_parse.raised
        /\ n_name \in {None, <<>>} => n_parse = NoParse /\ n_prefix = NoPrefix

\* C8: a name that starts with a recognised Thai title gets that title's
\* English abbreviation as its prefix, and a name whose leading text is no
\* recognised title gets the empty prefix (extract_prefix and add_prefix)
C8_PrefixOfTitle ==
    n_pc = "done" /\ n_name \notin {None, <<>>} =>
        LET name == Strip(n_name)
            fn == PrefixFn(n_variant)
            thai == {t \in Recognised("parse_name_pkg") : StartsWith(name, t)}
        IN  /\ \A t \in thai :
                 (\A u \in thai : Len(u) <= Len(t))
                    => n_prefix.prefix = Lookup(PrefixTable(fn), t)
            /\ LongestRecognised(fn, name) = <<>> => n_prefix.prefix = ""

-----------------------------------------------------------------------------
(* SpecScrape: scrape_executives of both variants over pages built from a
   few tables, blocks and live elements. *)

MaxContainers == 2      \* containers of a page
MaxLimit == 3           \* the limit argument ranges over 0..MaxLimit

Role == <<"C", "E", "O">>
Note == <<"x">>
DateThai == <<"1", SP, "M04", SP, "2", "5", "6", "4">>
DateSlash == <<"5", "/", "1", "/", "2", "0", "2", "2">>
FullA == TNai \o Banthun \o <<SP>> \o Lamsam
FullB == TNangSao \o <<SP>> \o Sawitri
FullSpaced == TNai \o Banthun \o <<SP, SP>> \o Lamsam
TitleOnly == TNai

Row(n, name, d3, d4) ==
    [th |-> FALSE, own |-> TRUE, cells |-> SubSeq(<<name, Role, d3, d4, Note>>, 1, n)]
HeaderRow == [th |-> TRUE, own |-> TRUE, cells |-> <<FullA, Role>>]
\* a tr of a table nested in the table: table.select("tr") finds it too
NestedRow(n, name) == [Row(n, name, <<>>, <<>>) EXCEPT !.own = FALSE]
Item(name, position, date) == [name |-> name, position |-> position, date |-> date]
Table(rows) == [kind |-> "table", rows |-> rows, items |-> <<>>, divs |-> <<>>]
Block(items, divs) == [kind |-> "div", rows |-> <<>>, items |-> items, divs |-> divs]

TabFour == Table(<<HeaderRow, Row(4, FullA, DateThai, DateSlash),
                   Row(4, FullB, DateSlash, DateThai)>>)
TabTwo == Table(<<Row(2, FullA, <<>>, <<>>), Row(2, FullB, <<>>, <<>>)>>)
TabMixed == Table(<<Row(3, FullA, DateThai, <<>>), Row(1, FullA, <<>>, <<>>),
                    Row(5, FullB, DateThai, DateSlash)>>)
TabOdd == Table(<<Row(4, <<>>, DateThai, DateSlash), Row(2, TitleOnly, <<>>, <<>>)>>)
BlockItems == Block(<<Item(FullA, Role, DateThai \o DateRangeSep \o DateSlash),
                      Item(None, Role, None),
                      Item(FullB, None, DateThai)>>, <<>>)
BlockDivs == Block(<<>>, <<Item(TitleOnly, Role, None), Item(FullB, Role, None)>>)
TabSpaced == Table(<<Row(2, FullSpaced, <<>>, <<>>)>>)
\* a table with a row of its own and a nested table of one row, and that
\* nested table, which the selector "table" finds as well
TabOuter == Table(<<Row(2, FullA, <<>>, <<>>), NestedRow(2, FullB)>>)
TabInner == Table(<<Row(2, FullB, <<>>, <<>>)>>)

Containers == {TabFour, TabTwo, TabMixed, TabOdd, BlockItems, BlockDivs, TabSpaced}
ContainerSeqs == UNION {[1..n -> Containers] : n \in 1..MaxContainers}

Jane == <<"J", "a", "n", "e", SP, "D", "o", "e">>
Director == <<"D", "i", "r", "e", "c", "t", "o", "r">>
SixWords == <<"a", SP, "b", SP, "c", SP, "d", SP, "e", SP, "f">>
LiveCards == <<Jane \o <<NL>> \o Director,
               <<"a", "b", "c">>,
               Jane \o <<":", SP>> \o Director>>
LiveOdd == <<SixWords,
             TitleOnly \o <<SP, SP, "-", SP>> \o Director,
             Jane \o <<SP, "-", SP, "x", ":", SP>> \o Role \o <<NL>> \o Note>>
LiveLists == {<<>>, LiveCards, LiveOdd}

Pages ==
    {[primary |-> c, alt |-> <<>>, live |-> l] : c \in ContainerSeqs, l \in LiveLists}
    \cup {[primary |-> <<>>, alt |-> a, live |-> l] :
              a \in {<<>>, <<BlockDivs>>}, l \in LiveLists}
    \cup {[primary |-> <<TabTwo>>, alt |-> <<BlockDivs>>, live |-> <<>>],
          [primary |-> <<TabOdd>>, alt |-> <<BlockDivs>>, live |-> <<>>],
          [primary |-> <<TabOuter, TabInner>>, alt |-> <<>>, live |-> <<>>]}

InitScrape ==
    /\ IdleUrl /\ IdleFetch /\ IdleDate /\ IdleName /\ IdlePage /\ IdleSite /\ IdleRun
    /\ s_pc = "start"
    /\ s_variant \in {"root", "pkg"}
    /\ s_limit \in 0..MaxLimit \cup {Infinity}
    /\ s_page = NoPage
    /\ s_ti = 0 /\ s_ri = 0 /\ executives = <<>> /\ exec_count = 0

NextScrape ==
    \/ ScrapeFetchFails
    \/ \E page \in Pages : ScrapeFetchOk(page)
    \/ ScrapeContainer
    \/ ScrapeRow
    \/ ScrapeItem
    \/ ScrapeContainerDone
    \/ ScrapeReturn
    \/ \E outcome \in ImageOutcomes : ScrapeImages(outcome)
    \/ \E found \in BOOLEAN : ScrapeFallbackBegin(found)
    \/ ScrapeElement
    \/ ScrapeFallbackDone

SpecScrape == InitScrape /\ [][NextScrape]_vars

\* the row the table loop is about to handle
CurrentRow == ExecutiveTables(s_page)[s_ti].rows[s_ri]
AtRow == s_pc = "rows" /\ s_ri <= Len(ExecutiveTables(s_page)[s_ti].rows)

\* C9: every header-less table row with a non-empty name cell that the loop
\* handles adds exactly one record, whose dates follow from the cell count
\* alone: cells 3 and 4 for 4 or more cells, cell 3 and an empty end date
\* for 3 cells, two empty dates for fewer than 3 cells.
C9_RowGivesOneRecord ==
    [][(AtRow /\ ~CurrentRow.th /\ Len(CurrentRow.cells) >= 1
              /\ CurrentRow.cells[1] # <<>>)
        => /\ Len(executives') = Len(executives) + 1
           /\ LET cols == CurrentRow.cells
                  rec == executives'[Len(executives')]
              IN  /\ rec.Full_Name = cols[1]
                  /\ rec.Start_Date = IF Len(cols) >= 3
                                      THEN extract_date(s_variant, cols[3]) ELSE <<>>
                  /\ rec.End_Date = IF Len(cols) >= 4
                                    THEN extract_date(s_variant, cols[4]) ELSE <<>>]_vars

AtContainer == s_pc = "container" /\ s_ti <= Len(ExecutiveTables(s_page))
AtItem ==
    s_pc = "items" /\ s_ri <= Len(ExecutiveItems(ExecutiveTables(s_page)[s_ti]))
AtElement == s_pc = "fallback" /\ s_ri <= Len(Take(s_page.live, s_limit))

ReturnedWithinLimit == s_pc = "done" => Len(executives) <= s_limit
NothingHandledAtCap ==
    exec_count >= s_limit => ~(AtContainer \/ AtRow \/ AtItem \/ AtElement)

\* C10: for every limit, 0 included, scrape_executives returns no more than
\* limit records, and once the count has reached limit no container, row,
\* item or fallback element is handled.
C10_GlobalCap == ReturnedWithinLimit /\ NothingHandledAtCap

-----------------------------------------------------------------------------
(* SpecExtract: one run of an extractor, scrape_executives (as in SpecScrape)
   or parse_page over pages of a few article elements. *)

MaxArticles == 2        \* article elements of a page

Day(y, m, d) == [year |-> y, month |-> m, day |-> d]
Todays == {Day(2024, 3, 15), Day(2023, 1, 10)}

Headline == <<"N", "e", "w", "s">>
GoodHref == <<"/", "a">>
ForeignHref == HttpsPrefix \o EvilHost \o <<"/", "a">>
BodyText == <<SP, "t", "e", "x", "t", NL, NL, "m", "o", "r", "e">>
DateElement(attr, text) == <<[attrs |-> <<attr, <<>>, <<>>>>, text |-> text]>>
Title(text, href) == <<[text |-> text, href |-> href]>>
Article(sel, title, date, body) ==
    [sel |-> sel, title |-> title, date |-> date, body |-> body]

IsoText == <<"2", "0", "2", "4", "-", "0", "3", "-", "0", "1">>
SlashText == <<"2", "5", "/", "1", "2", "/", "2", "0", "2", "3">>
\* 1 March 2024 written with its Buddhist-era year
BuddhistText == <<"2", "5", "6", "7", "-", "0", "3", "-", "0", "1">>

ArtPlain == Article({"article"}, Title(Headline, GoodHref),
                    DateElement(<<>>, IsoText), BodyText)
ArtTwice == Article({"article", ".post"}, Title(Headline, GoodHref), <<>>, None)
ArtCard == Article({".card"}, Title(<<>>, GoodHref),
                   DateElement(SlashText, IsoText), <<>>)
ArtNoTitle == Article({".post"}, <<>>, <<>>, BodyText)
ArtForeign == Article({".entry"}, Title(Headline, ForeignHref), <<>>, BodyText)
ArtRaises == Article({"article"}, Title(Headline, GoodHref), <<>>, Throws)
ArtBuddhist == Article({"article"}, Title(Headline, GoodHref),
                       DateElement(<<>>, BuddhistText), <<>>)

ArticleKinds ==
    {ArtPlain, ArtTwice, ArtCard, ArtNoTitle, ArtForeign, ArtRaises, ArtBuddhist}
PageHtmls ==
    {NoHtml} \cup {Html(e) : e \in UNION {[1..n -> ArticleKinds] : n \in 0..MaxArticles}}

InitParse ==
    /\ IdleUrl /\ IdleFetch /\ IdleDate /\ IdleName /\ IdleScrape /\ IdleSite /\ IdleRun
    /\ p_pc = "start"
    /\ p_html \in PageHtmls
    /\ p_today \in Todays
    /\ p_si = 0 /\ p_ai = 0 /\ articles = <<>>

InitExtract == InitScrape \/ InitParse

NextParse == ParseBegin \/ ParseArticle \/ ParseNextSelector \/ ParseReturn

NextExtract == NextScrape \/ NextParse

SpecExtract == InitExtract /\ [][NextExtract]_vars

\* the first selector of article_selectors, from k on, that finds an element
\* (0: none does)
RECURSIVE FirstStrategy(_, _)
FirstStrategy(elements, k) ==
    IF k > Len(article_selectors) THEN 0
    ELSE IF Select(elements, article_selectors[k]) # <<>> THEN k
    ELSE FirstStrategy(elements, k + 1)

FirstStrategyRecords(elements, today) ==
    IF FirstStrategy(elements, 1) = 0 THEN <<>>
    ELSE ArticleRecords(Select(elements,
                               article_selectors[FirstStrategy(elements, 1)]),
                        today)

\* C11: the container selectors are tried in priority order and only the
\* first one that finds a container is used for the page: parse_page returns
\* the records of the containers of that selector and nothing from a later
\* selector, and scrape_executives walks the containers of its first
\* selector whenever that selector finds one.
C11_FirstMatchWins ==
    /\ (p_pc = "done" /\ ~p_html.empty)
          => articles = FirstStrategyRecords(p_html.elements, p_today)
    /\ (s_pc \in {"container", "rows", "items"} /\ s_page.primary # <<>>)
          => ExecutiveTables(s_page) = s_page.primary

\* the text of the element the fallback pass is about to handle, and the
\* (name, role) guess read from it
ElementText == Strip(s_page.live[s_ri])
GuessSep ==
    IF Contains(ElementText, <<NL>>) THEN <<NL>>
    ELSE IF Contains(ElementText, <<":">>) THEN <<":">>
    ELSE IF Contains(ElementText, <<"-">>) THEN <<"-">>
    ELSE <<>>
GuessName ==
    IF GuessSep = <<>> THEN ElementText ELSE Strip(BeforeSub(ElementText, GuessSep))
NameTokens == Len(Split(GuessName))
AddsOne == Len(executives') = Len(executives) + 1
         /\ SubSeq(executives', 1, Len(executives)) = executives

ExecutivesNamed == \A i \in 1..Len(executives) : executives[i].Full_Name # <<>>
ArticlesHeadlined == \A i \in 1..Len(articles) : articles[i].Headline # <<>>

\* C13: no record has an empty primary field: every record of
\* scrape_executives has a non-empty Full_Name and every record of
\* parse_page has a non-empty Headline.
C13_PrimaryFieldNonEmpty == ExecutivesNamed /\ ArticlesHeadlined

\* the article the selector loop is about to handle
AtArticle ==
    /\ p_pc = "select" /\ p_si <= Len(article_selectors)
    /\ p_ai <= Len(Select(p_html.elements, article_selectors[p_si]))
CurrentArticle == Select(p_html.elements, article_selectors[p_si])[p_ai]
CurrentItem == ExecutiveItems(ExecutiveTables(s_page)[s_ti])[s_ri]

RowRaises == AtRow /\ RowRecord(s_variant, CurrentRow).kind = "raise"
ItemRaises == AtItem /\ ItemRecord(s_variant, CurrentItem).kind = "raise"
ArticleRaises == AtArticle /\ ArticleRecord(CurrentArticle, p_today).kind = "raise"

\* C14: an exception raised while one row, item or article is handled does
\* not end the page: the step adds no record, leaves the records collected
\* so far as they are, and the loop goes on with the next row, item or
\* article of the same container list.
C14_ExceptionSkipsContainer ==
    [][/\ RowRaises => /\ executives' = executives /\ exec_count' = exec_count
                       /\ s_pc' = "rows" /\ s_ti' = s_ti /\ s_ri' = s_ri + 1
       /\ ItemRaises => /\ executives' = executives /\ exec_count' = exec_count
                        /\ s_pc' = "items" /\ s_ti' = s_ti /\ s_ri' = s_ri + 1
       /\ ArticleRaises => /\ articles' = articles
                           /\ p_pc' = "select" /\ p_si' = p_si
                           /\ p_ai' = p_ai + 1]_vars

\* an article after one that raised has given its record
C14_Witness ==
    /\ p_pc = "done" /\ p_html.elements = <<ArtRaises, ArtPlain>>
    /\ Len(articles) = 1 /\ articles[1].Headline = Headline

-----------------------------------------------------------------------------
(* SpecSite: scrape_website over a few pages whose articles carry dates
   around the cutoff; SpecSiteLive adds that the interpreter keeps running
   the function until it returns. *)

MaxPages == 2           \* num_pages ranges over 0..MaxPages

RunDay == Day(2024, 3, 15)
SiteNows == {[date |-> RunDay, seconds |-> 0], [date |-> RunDay, seconds |-> 43200]}

Dated(text) == Article({"article"}, Title(Headline, GoodHref),
                       DateElement(<<>>, text), BodyText)
CutoffText == <<"2", "0", "2", "4", "-", "0", "2", "-", "1", "4">>
AfterCutoffText == <<"2", "0", "2", "4", "-", "0", "2", "-", "1", "5">>
Year999Text == <<"0", "9", "9", "9", "-", "0", "1", "-", "0", "1">>
ArtAtCutoff == Dated(CutoffText)
ArtAfterCutoff == Dated(AfterCutoffText)
ArtOld == Dated(SlashText)
ArtYear999 == Dated(Year999Text)

SiteHtmls ==
    {NoHtml, Html(<<>>), Html(<<ArtOld>>), Html(<<ArtPlain, ArtOld>>),
     Html(<<ArtOld, ArtYear999>>), Html(<<ArtAtCutoff, ArtAfterCutoff>>),
     Html(<<ArtYear999, ArtTwice>>)}

InitSite ==
    /\ IdleUrl /\ IdleFetch /\ IdleDate /\ IdleName /\ IdleScrape /\ IdlePage /\ IdleRun
    /\ w_pc = "start"
    /\ w_num_pages \in 0..MaxPages
    /\ w_now \in SiteNows
    /\ w_page = 0 /\ w_html = NoHtml /\ w_log = <<>> /\ all_articles = <<>>

NextSite ==
    \/ SiteBegin
    \/ \E raises \in BOOLEAN, html \in SiteHtmls : SiteFetch(raises, html)
    \/ \E ok \in BOOLEAN : SiteExtract(ok)
    \/ SiteReturn

SpecSite == InitSite /\ [][NextSite]_vars

SpecSiteLive == SpecSite /\ WF_vars(NextSite)

\* the call a step has just logged
LoggedCall == w_log'[Len(w_log')]
CallFailed == Len(w_log') = Len(w_log) + 1 /\ LoggedCall.result \in {"none", "raise"}

\* C15: when the fetch of page i gives no html, or the fetch or the
\* processing of page i raises, the page adds no record, the records of the
\* earlier pages stay as they are, and scrape_website goes on with page
\* i + 1 (or returns after the last page): the failure does not leave the
\* loop.
C15_PageFailureSkipsPage ==
    [][CallFailed => /\ all_articles' = all_articles
                     /\ w_pc' = "page" /\ w_page' = LoggedCall.page + 1]_vars

\* page 1 gave a record, the fetch of page 2 raised, the run returned
C15_Witness ==
    /\ w_pc = "done" /\ Len(w_log) = 3
    /\ w_log[3] = Call("fetch", 2, "raise")
    /\ Len(all_articles) = 1

\* the pages of the fetch calls logged so far, in their order
RECURSIVE FetchedPages(_)
FetchedPages(log) ==
    IF log = <<>> THEN <<>>
    ELSE (IF Head(log).call = "fetch" THEN <<Head(log).page>> ELSE <<>>)
            \o FetchedPages(Tail(log))

\* pages are fetched in the order 1, 2, ..., and a page that was fetched is
\* extracted and filtered before anything else is called
LogSequential ==
    /\ FetchedPages(w_log) = [i \in 1..Len(FetchedPages(w_log)) |-> i]
    /\ Len(FetchedPages(w_log)) <= w_num_pages
    /\ \A k \in 1..Len(w_log) :
          /\ w_log[k].call = "extract"
                => k > 1 /\ w_log[k - 1] = Call("fetch", w_log[k].page, "ok")
          /\ (w_log[k] = Call("fetch", w_log[k].page, "ok") /\ k < Len(w_log))
                => w_log[k + 1].call = "extract" /\ w_log[k + 1].page = w_log[k].page
    /\ w_pc = "parse" <=> (w_log # <<>> /\ w_log[Len(w_log)].call = "fetch"
                                        /\ w_log[Len(w_log)].result = "ok")

ReturnedAfterAllPages ==
    w_pc = "done" => Len(FetchedPages(w_log)) = w_num_pages

\* C16: for every num_pages and every pattern of failures scrape_website
\* fetches the pages 1..num_pages in increasing order, extracts and filters
\* a page before it fetches the next one, and in the end returns the
\* collection.
C16_SequentialAndTerminates ==
    [](LogSequential /\ ReturnedAfterAllPages) /\ <>(w_pc = "done")

\* both pages were fetched and extracted, and the run has returned
C16_Witness ==
    /\ w_pc = "done" /\ w_num_pages = MaxPages /\ Len(w_log) = 2 * MaxPages
    /\ w_log[Len(w_log)] = Call("extract", MaxPages, "raise")

\* the date of a record against the instant CutoffDays before the run:
\* a record's date is the midnight that starts its day
Unparseable(rec) == Strptime(rec.Date) = NoDay
DaysAfterCutoffDay(rec) == Ordinal(Strptime(rec.Date)) - (Ordinal(w_now.date) - CutoffDays)
LaterThanMonthAgo(rec) == ~Unparseable(rec) /\ DaysAfterCutoffDay(rec) >= 1
OlderThanMonthAgo(rec) ==
    /\ ~Unparseable(rec)
    /\ DaysAfterCutoffDay(rec) < 0 \/ (DaysAfterCutoffDay(rec) = 0 /\ w_now.seconds > 0)
MustKeep(rec) == Unparseable(rec) \/ LaterThanMonthAgo(rec)

ExtractedPage ==
    /\ w_pc = "parse" /\ Len(w_log') = Len(w_log) + 1
    /\ LoggedCall = Call("extract", w_page, "ok")
AddedArticles == SubSeq(all_articles', Len(all_articles) + 1, Len(all_articles'))

\* C17: of the records of a page the filter keeps those dated later than 30
\* days before the run and those whose date string does not parse, in their
\* order, and drops those dated older than that.
C17_RecencyFilter ==
    [][ExtractedPage =>
          /\ SubSeq(all_articles', 1, Len(all_articles)) = all_articles
          /\ SelectSeq(AddedArticles, MustKeep)
                = SelectSeq(parse_page(w_html, w_now.date), MustKeep)
          /\ SelectSeq(AddedArticles, OlderThanMonthAgo) = <<>>
          /\ Len(AddedArticles) <= Len(parse_page(w_html, w_now.date))]_vars

\* of a page with an old article and one whose date does not parse the
\* second alone was kept
C17_Witness ==
    /\ w_pc = "done" /\ w_num_pages = 1 /\ w_html = Html(<<ArtOld, ArtYear999>>)
    /\ Len(all_articles) = 1 /\ Unparseable(all_articles[1])
    /\ w_log[Len(w_log)] = Call("extract", 1, "ok")

\* a day and a month as the claim wants them emitted
TwoDigitDayMonth(day, month) ==
    /\ Len(day) = 2 /\ AllDigits(day)
    /\ Len(month) = 2 /\ AllDigits(month) /\ NatVal(month) \in 1..12

\* out is three fields joined by "-", day first in src/KBank.py and last in
\* src/Kbank/KBank.py, with a two-digit day and month
WellFormedDate(variant, out) ==
    /\ CountSub(out, <<"-">>) = 2
    /\ TwoDigitDayMonth(IF variant = "root" THEN BeforeSub(out, <<"-">>)
                        ELSE AfterSub(AfterSub(out, <<"-">>), <<"-">>),
                        BeforeSub(AfterSub(out, <<"-">>), <<"-">>))

\* C18: what extract_date returns for a text is a date string with a day
\* and a month of exactly two digits, or, for input with a non-numeric day
\* token or an impossible month, the fallback of the variant (the empty
\* string in src/KBank.py, the text in src/Kbank/KBank.py).
C18_TwoDigitOrFallback ==
    (d_pc = "done" /\ d_text \notin {None, <<>>, <<"-">>})
        => \/ d_out = DateFallback(d_variant, d_text)
           \/ WellFormedDate(d_variant, d_out)

\* no pattern of extract_date matches the text
NoDatePattern(text) ==
    ThaiHits(text) = {} /\ SearchDmy(text) = 0 /\ SearchYmd(text) = 0

\* the Thai pattern matches and int(year) raises
YearNotInt(text) ==
    /\ ThaiHits(text) # {}
    /\ Len(Split(text)[FirstThaiHit(text)[2] + 1]) = 4
    /\ ~PyInt(Split(text)[FirstThaiHit(text)[2] + 1]).ok

\* C19: each variant has one degraded outcome: for every text that matches
\* no pattern or makes the function fail inside, src/KBank.py returns the
\* empty string and src/Kbank/KBank.py returns the text unchanged.
C19_OneDegradedOutcome ==
    (d_pc = "done" /\ d_text # None
        /\ (NoDatePattern(d_text) \/ YearNotInt(d_text)))
        => d_out = IF d_variant = "root" THEN <<>> ELSE d_text

\* Full_Name without the title it starts with (the longest one that the
\* variant's parse_name knows)
WithoutTitle(variant, full_name) ==
    Strip(Drop(Strip(full_name),
               Len(LongestRecognised(ParseFn(variant), Strip(full_name)))))

Reconstructs(variant, rec) ==
    IF rec.Surname # <<>>
    THEN rec.First_Name \o <<SP>> \o rec.Surname = WithoutTitle(variant, rec.Full_Name)
    ELSE rec.First_Name = WithoutTitle(variant, rec.Full_Name)

\* C20: in every record of scrape_executives First_Name, a space and
\* Surname give back Full_Name without its leading title, and First_Name
\* alone does when Surname is empty.
C20_NameReconstructs ==
    \A i \in 1..Len(executives) : Reconstructs(s_variant, executives[i])

-----------------------------------------------------------------------------
(* Containers and records *)

\* the number of row and item elements in the containers q: a row counts
\* in the table it belongs to
RECURSIVE LocatedRows(_)
LocatedRows(rows) ==
    IF rows = <<>> THEN 0
    ELSE (IF Head(rows).own THEN 1 ELSE 0) + LocatedRows(Tail(rows))

RECURSIVE LocatedIn(_)
LocatedIn(q) ==
    IF q = <<>> THEN 0
    ELSE (IF Head(q).kind = "table" THEN LocatedRows(Head(q).rows)
          ELSE Len(ExecutiveItems(Head(q))))
         + LocatedIn(Tail(q))

\* C21: a located container gives at most one record: parse_page returns
\* no more records than the page has article elements, and the structural
\* pass of scrape_executives collects no more records than the page has
\* rows and items, also when a table is nested in a matched table or an
\* element matches two selectors.
C21_OneRecordPerContainer ==
    /\ p_pc = "done" => Len(articles) <= Len(p_html.elements)
    /\ s_pc \in {"container", "rows", "items", "after"}
          => Len(executives) <= LocatedIn(ExecutiveTables(s_page))

-----------------------------------------------------------------------------
(* The main() functions: src/KBank.py 639-664, src/Kbank/KBank.py 747-772,
   src/main.py 495-531.  A run constructs a scraper, scrapes, saves and
   returns; what the scraper's methods find is drawn, what main() does with
   the outcome is the code's.  The browser is acquired by setup_driver
   (webdriver.Chrome) and released by close (driver.quit); a requests
   session is acquired by WebScraper.__init__ and released by
   Session.close. *)

Step(step, outcome) == [step |-> step, outcome |-> outcome]

IsKBank == r_prog \in {"root", "pkg"}

\* scraper = KasikornSeleniumScraper() / WebScraper(url): the pkg
\* constructor creates a directory and can raise; WebScraper.__init__
\* creates a session
RunConstruct(ok) ==
    /\ r_pc = "start"
    /\ (~ok) => r_prog = "pkg"
    /\ r_log' = Append(r_log, Step("construct", IF ok THEN "ok" ELSE "raise"))
    /\ IF ok
       THEN /\ r_scraper' = TRUE
            /\ r_pc' = "scrape"
            /\ r_sessions' = IF r_prog = "main" THEN Append(r_sessions, "open")
                             ELSE r_sessions
       ELSE r_pc' = "except" /\ UNCHANGED <<r_scraper, r_sessions>>
    /\ UNCHANGED <<r_prog, r_driver, r_data,
                   urlVars, fetchVars, dateVars, nameVars, scrapeVars, pageVars, siteVars>>

\* scrape_executives, fetch_page's first lines: setup_driver.  Chrome()
\* raising leaves driver None ("no_browser"); a later line of setup_driver
\* raising leaves the started driver in self.driver ("configure");
\* either way fetch_page returns None, scrape_executives returns [] and
\* main takes the simulated data
RunSetupDriver(outcome) ==
    /\ r_pc = "scrape" /\ IsKBank
    /\ r_log' = Append(r_log, Step("setup_driver", outcome))
    /\ r_driver' = IF outcome = "no_browser" THEN "none" ELSE "open"
    /\ IF outcome = "ok"
       THEN r_pc' = "fetch" /\ UNCHANGED r_data
       ELSE r_pc' = "save" /\ r_data' = TRUE
    /\ UNCHANGED <<r_prog, r_scraper, r_sessions,
                   urlVars, fetchVars, dateVars, nameVars, scrapeVars, pageVars, siteVars>>

\* fetch_page(self, url, retries=3)
RunRetries == 3

\* the attempts of fetch_page logged so far
Attempts(log) == Len(SelectSeq(log, LAMBDA e : e.step = "fetch_page"))

\* scrape_executives: html = self.fetch_page(...); if not html: return [].
\* One attempt of fetch_page: the page, or a failed attempt, the last of
\* which makes fetch_page return None
RunFetchPage(fetched) ==
    /\ r_pc = "fetch"
    /\ r_log' = Append(r_log, Step("fetch_page", IF fetched THEN "html" ELSE "none"))
    /\ IF fetched
       THEN r_pc' = "extract" /\ UNCHANGED r_data
       ELSE IF Attempts(r_log') < RunRetries
            THEN UNCHANGED <<r_pc, r_data>>
            ELSE r_pc' = "save" /\ r_data' = TRUE
    /\ UNCHANGED <<r_prog, r_scraper, r_driver, r_sessions,
                   urlVars, fetchVars, dateVars, nameVars, scrapeVars, pageVars, siteVars>>

\* the rest of scrape_executives: records, no records (main takes the
\* simulated data), or an exception outside its try blocks
RunExtract(outcome) ==
    /\ r_pc = "extract"
    /\ r_log' = Append(r_log, Step("scrape_executives", outcome))
    /\ IF outcome = "raise"
       THEN r_pc' = "except" /\ UNCHANGED r_data
       ELSE r_pc' = "save" /\ r_data' = TRUE
    /\ UNCHANGED <<r_prog, r_scraper, r_driver, r_sessions,
                   urlVars, fetchVars, dateVars, nameVars, scrapeVars, pageVars, siteVars>>

\* main.py: scraped_data = scraper.scrape_website(num_pages=3); with no
\* articles from the first scraper a second WebScraper is constructed
RunScrapeWebsite(outcome) ==
    /\ r_pc = "scrape" /\ r_prog = "main"
    /\ r_log' = Append(r_log, Step("scrape_website", outcome))
    /\ r_data' = (outcome = "records")
    /\ r_pc' = CASE outcome = "raise" -> "except"
                 [] outcome = "records" -> "save"
                 [] outcome = "empty" /\ Len(r_sessions) = 1 -> "start"
                 [] OTHER -> "returned"
    /\ UNCHANGED <<r_prog, r_scraper, r_driver, r_sessions,
                   urlVars, fetchVars, dateVars, nameVars, scrapeVars, pageVars, siteVars>>

\* save_to_csv returns True or False, it raises nothing; main logs either
RunSave(saved) ==
    /\ r_pc = "save"
    /\ r_log' = Append(r_log, Step("save_to_csv", IF saved THEN "true" ELSE "false"))
    /\ r_pc' = IF IsKBank THEN "finally" ELSE "returned"
    /\ UNCHANGED <<r_prog, r_scraper, r_driver, r_sessions, r_data,
                   urlVars, fetchVars, dateVars, nameVars, scrapeVars, pageVars, siteVars>>

\* except Exception as e: logging.error(...)
RunExcept ==
    /\ r_pc = "except"
    /\ r_log' = Append(r_log, Step("except", "logged"))
    /\ r_pc' = IF IsKBank THEN "finally" ELSE "returned"
    /\ UNCHANGED <<r_prog, r_scraper, r_driver, r_sessions, r_data,
                   urlVars, fetchVars, dateVars, nameVars, scrapeVars, pageVars, siteVars>>

\* close(): if self.driver: self.driver.quit()
close(driver) == IF driver = "open" THEN "quit" ELSE driver

\* a finally block that forgets the driver
closeNothing(driver) == driver

\* finally: scraper.close(); with scraper unbound (the constructor raised)
\* the name lookup raises out of main
RunFinally ==
    /\ r_pc = "finally"
    /\ IF r_scraper
       THEN /\ r_driver' = close(r_driver)
            /\ r_log' = Append(r_log, Step("close", r_driver'))
            /\ r_pc' = "returned"
       ELSE /\ r_log' = Append(r_log, Step("close", "raise"))
            /\ r_pc' = "raised"
            /\ UNCHANGED r_driver
    /\ UNCHANGED <<r_prog, r_scraper, r_sessions, r_data,
                   urlVars, fetchVars, dateVars, nameVars, scrapeVars, pageVars, siteVars>>

SetupOutcomes == {"no_browser", "configure", "ok"}
ScrapeOutcomes == {"records", "empty", "raise"}

InitRun ==
    /\ IdleUrl /\ IdleFetch /\ IdleDate /\ IdleName /\ IdleScrape /\ IdlePage /\ IdleSite
    /\ r_prog \in {"root", "pkg", "main"}
    /\ r_pc = "start" /\ r_scraper = FALSE /\ r_driver = "none"
    /\ r_sessions = <<>> /\ r_data = FALSE /\ r_log = <<>>

NextRun ==
    \/ \E ok \in BOOLEAN : RunConstruct(ok)
    \/ \E outcome \in SetupOutcomes : RunSetupDriver(outcome)
    \/ \E fetched \in BOOLEAN : RunFetchPage(fetched)
    \/ \E outcome \in ScrapeOutcomes : RunExtract(outcome)
    \/ \E outcome \in ScrapeOutcomes : RunScrapeWebsite(outcome)
    \/ \E saved \in BOOLEAN : RunSave(saved)
    \/ RunExcept
    \/ RunFinally

SpecRun == InitRun /\ [][NextRun]_vars

MainReturned == r_pc \in {"returned", "raised"}

\* the browser of a KBank run is not left open
DriverReleased == MainReturned /\ IsKBank => r_driver # "open"

\* no session of a main.py run is left open
SessionsReleased ==
    MainReturned /\ r_prog = "main" => \A i \in DOMAIN r_sessions : r_sessions[i] # "open"

\* C22: when main() has returned, on whichever path, what the run acquired
\* is released: the browser driver of a KBank run is not open, and no
\* requests session of a main.py run is open.
C22_ReleasedOnReturn == DriverReleased /\ SessionsReleased

\* a KBank run that started a browser and has returned
DriverQuit == MainReturned /\ r_driver = "quit"

-----------------------------------------------------------------------------
(* Short pages *)

\* a fetch by fn that has ended and whose last request gave a short page:
\* it returned None and used every attempt; a short page earlier in the
\* fetch was followed by a further request
ShortPageFails(fn) ==
    f_fn = fn /\ f_outcomes # <<>> =>
        /\ f_pc = "done" /\ f_outcomes[Len(f_outcomes)] = "short"
              => f_result = None /\ Len(f_outcomes) = f_retries
        /\ \A i \in 1..(Len(f_outcomes) - 1) :
              f_outcomes[i] = "short" => i < f_retries

FetchPageShortFails == ShortPageFails("fetch_page")

\* fetch_page ended in failure after a short page on each of 3 attempts
FetchPageShortThrice ==
    /\ f_fn = "fetch_page" /\ f_pc = "done" /\ f_result = None
    /\ f_outcomes = <<"short", "short", "short">>

\* C23: a page shorter than the minimum length is never returned as
\* success: the attempt counts as failed, is retried while attempts remain
\* and the fetch returns None when none remain, in fetch_page and in
\* fetch_html.
C23_ShortPageNeverSuccess ==
    ShortPageFails("fetch_page") /\ ShortPageFails("fetch_html")

-----------------------------------------------------------------------------
(* Pacing *)

\* every request made so far had its own pacing sleep before it
PacedBeforeEachRequest ==
    /\ Len(f_paces) >= Len(f_outcomes)
    /\ f_pc \in {"request", "backoff"} => Len(f_paces) = f_attempt + 1

\* the pacing sleep of fn can take more than one value
Jittered(fn) == f_fn = fn /\ f_paces # <<>> => Cardinality(PaceTimes(fn, f_delay)) > 1

FetchPagePaced == PacedBeforeEachRequest /\ Jittered("fetch_page")

\* fetch_page slept two different pacing times before its first two requests
FetchPageJitterSeen ==
    /\ f_fn = "fetch_page" /\ Len(f_outcomes) = 2 /\ Len(f_paces) = 2
    /\ f_paces[1] # f_paces[2]

\* C24: every request of a fetch, the first and each retry, has a pacing
\* sleep before it, and that sleep has a random part, so that it is not one
\* fixed value attempt after attempt, in fetch_page and in fetch_html.
C24_JitteredPacing ==
    PacedBeforeEachRequest /\ Jittered("fetch_page") /\ Jittered("fetch_html")

-----------------------------------------------------------------------------
(* Records once appended *)

\* every record of the list before is in the list after, in its place and
\* with its fields as they were
Kept(before, after) ==
    /\ Len(after) >= Len(before)
    /\ \A i \in 1..Len(before) : after[i] = before[i]

RootRecordsKept == [][s_variant = "root" => Kept(executives, executives')]_vars

ArticlesKept == [][Kept(articles, articles') /\ Kept(all_articles, all_articles')]_vars

\* C25: a record appended to the list a scraper returns is not changed and
\* not removed in the rest of the call: each step of scrape_executives,
\* parse_page and scrape_website keeps the records collected so far as
\* they are.
C25_RecordsImmutable ==
    [][ /\ Kept(executives, executives')
        /\ Kept(articles, articles')
        /\ Kept(all_articles, all_articles') ]_vars

-----------------------------------------------------------------------------
(* Years of article dates *)

\* the year of a date string YYYY-MM-DD
YearOf(date) == NatVal(SubSeq(date, 1, 4))

\* C26: extract_date of main.py emits year y - 543 for a matched 4-digit
\* year y > 2500: no record parse_page returns has a Date with a year
\* above 2500.
C26_ArticleYearCorrected ==
    p_pc = "done" => \A i \in DOMAIN articles : YearOf(articles[i].Date) <= BuddhistEraLimit

-----------------------------------------------------------------------------
(* Relative references *)

\* url is a relative reference written with path characters only: no
\* scheme, no "//" in front, nothing for clean_url to strip or replace
RelativeReference(url) ==
    /\ url # None /\ url # <<>>
    /\ UrlScheme(url) = <<>>
    /\ ~StartsWith(url, <<"/", "/">>)
    /\ \A i \in DOMAIN url : url[i] \notin Whitespace \cup {BSL, ","}

\* the base up to and with the "/" that ends its host
RootOf(base) ==
    LET sch == UrlScheme(base)
    IN  SubSeq(base, 1, Len(sch) + 3 + Len(Netloc(base))) \o <<"/">>

\* base without what follows its last "/"
RECURSIVE DirOf(_)
DirOf(base) ==
    IF base = <<>> \/ base[Len(base)] = "/" THEN base
    ELSE DirOf(SubSeq(base, 1, Len(base) - 1))

\* relative-reference resolution of r against base, for a reference without
\* dot segments: a reference that starts with "/" replaces the path of the
\* base, any other replaces the last segment of that path
Resolved(base, r) ==
    IF r[1] = "/" THEN RootOf(base) \o Tail(r) ELSE DirOf(base) \o r

PathRelativeResolved ==
    url_pc # "idle" /\ RelativeReference(url_in) /\ url_in[1] # "/"
        => url_out = Resolved(url_base, url_in)

\* clean_url of "a" on the scraper of the news section
PathRelativeSeen ==
    /\ url_pc = "once" /\ url_base = news_url /\ url_in = <<"a">>
    /\ url_out = news_url \o <<"a">>

\* C27: for every relative reference r, path-relative or root-relative,
\* clean_url returns what resolving r against base_url gives; a reference
\* that starts with "/" gives that path at the root of the base's host.
C27_RelativeResolved ==
    url_pc # "idle" /\ RelativeReference(url_in)
        => url_out = Resolved(url_base, url_in)

-----------------------------------------------------------------------------
(* Requests of a fetch *)

\* the fetch has returned a page: its last request succeeded and was the
\* only one that did
ReturnsFirstSuccess ==
    f_pc = "done" /\ f_result # None =>
        /\ f_outcomes # <<>>
        /\ AttemptSucceeds(f_fn, f_outcomes[Len(f_outcomes)])
        /\ f_result = IF f_outcomes[Len(f_outcomes)] = "ok"
                      THEN <<"html">> ELSE <<"short_html">>

NoRequestAfterSuccess ==
    \A i \in 1..(Len(f_outcomes) - 1) : ~AttemptSucceeds(f_fn, f_outcomes[i])

\* backoff sleeps lie between two requests
BackoffOnlyBetween ==
    /\ Len(f_backoffs) <= Len(f_outcomes)
    /\ Len(f_backoffs) = Len(f_outcomes) => f_outcomes = <<>> \/ Len(f_outcomes) < f_retries
    /\ f_pc = "done" /\ f_outcomes # <<>> => Len(f_backoffs) = Len(f_outcomes) - 1

\* C28: a fetch returns the page of its first successful request and makes
\* no request after it; it makes at most `retries` requests whatever their
\* outcomes, sleeps no backoff after the last one, and with retries <= 0
\* makes no request and returns None.
C28_BoundedRequests ==
    /\ ReturnsFirstSuccess
    /\ NoRequestAfterSuccess
    /\ Len(f_outcomes) <= f_retries
    /\ BackoffOnlyBetween
    /\ f_pc = "done" /\ f_retries <= 0 => f_outcomes = <<>> /\ f_result = None

\* a fetch of 3 attempts that failed twice and then returned the page, and a
\* fetch of 2 attempts that failed twice
C28_Witness ==
    \/ /\ f_pc = "done" /\ f_retries = 3 /\ f_result = <<"html">>
       /\ f_outcomes = <<"error", "error", "ok">> /\ Len(f_backoffs) = 2
    \/ /\ f_pc = "done" /\ f_retries = 2 /\ f_result = None
       /\ Len(f_outcomes) = 2 /\ Len(f_backoffs) = 1

-----------------------------------------------------------------------------
(* The fallback pass and the limit *)

\* one of the first `limit` live elements has a text the fallback pass
\* makes a record of
ValidElementWithin(variant, live, limit) ==
    \E i \in DOMAIN live :
        i <= limit /\ ElementRecord(variant, live[i]).kind = "record"

\* the step returns from a fallback pass whose query found the elements
FallbackReturns ==
    /\ s_pc' = "done"
    /\ s_pc = "fallback" \/ ScrapeFallbackBegin(TRUE)

FallbackGivesRecords ==
    FallbackReturns /\ s_limit >= 1 /\ ValidElementWithin(s_variant, s_page.live, s_limit)
        => executives' # <<>>

FiniteFallbackCompletes == [][s_limit # Infinity => FallbackGivesRecords]_vars

\* a fallback pass with limit 3 has returned the record of a live element
FiniteFallbackSeen ==
    /\ s_pc = "done" /\ s_limit = 3 /\ s_page.primary = <<>> /\ s_page.alt = <<>>
    /\ s_page.live # <<>> /\ Len(executives) >= 1

\* C29: the fallback pass of scrape_executives completes for every limit,
\* the unbounded limit of main() included: with no structural record, a
\* live driver whose query finds the elements and an element with valid
\* text within the limit, scrape_executives returns at least one record.
C29_FallbackCompletes == [][FallbackGivesRecords]_vars

-----------------------------------------------------------------------------
(* One lexicon *)

\* the title parse_name of src/KBank.py strips from the name (<<>>: none)
StrippedTitle(name) == LongestRecognised("parse_name_root", Strip(name))

\* extract_prefix reports the abbreviation of the title t, the empty prefix
\* for no title
ReportsTitle(name, prefix, t) ==
    IF t = <<>> THEN prefix = ""
    ELSE /\ LongestRecognised("extract_prefix", Strip(name)) = t
         /\ prefix = Lookup(PrefixTable("extract_prefix"), t)

RootNameCalled == n_pc = "done" /\ n_variant = "root" /\ n_name # None

\* the two functions agree on every name whose title is in both lexicons
SharedTitlesAgree ==
    RootNameCalled /\ StrippedTitle(n_name) \in Recognised("extract_prefix") \cup {<<>>}
        => ReportsTitle(n_name, n_prefix.prefix, StrippedTitle(n_name))

\* a name with the longer of two titles of both lexicons
SharedTitleSeen ==
    /\ RootNameCalled /\ n_title # <<>> /\ StrippedTitle(n_name) = n_title
    /\ HasShorterTitle("extract_prefix", n_title)
    /\ n_title \in Recognised("extract_prefix")

\* C30: in src/KBank.py extract_prefix and parse_name recognise the same
\* title on every name: when parse_name strips the title t, extract_prefix
\* reports the abbreviation of t, and when parse_name strips nothing,
\* extract_prefix reports the empty prefix.
C30_SameLexicon ==
    RootNameCalled => ReportsTitle(n_name, n_prefix.prefix, StrippedTitle(n_name))

=============================================================================
